---- MODULE Spec2Model ----
(***************************************************************************)
(* State-machine model of the sddsdata binding (sdds/sddsdatamodule.c):    *)
(* the fixed table of dataset slots, the value marshaller between Python   *)
(* objects and the ten SDDS types, and the calls the handlers make into    *)
(* the SDDS storage engine.  Handlers keep the names they have in the C    *)
(* source; the storage engine (SDDS_* functions, linked from the SDDS      *)
(* library) is modelled by its contract.                                   *)
(***************************************************************************)
EXTENDS Integers, Sequences, FiniteSets, TLC

VARIABLES
  dataset_f,   \* the slot table, its first TableSlots slots
  outside,     \* out-of-range indices whose memory a handler has accessed
  n_errors,    \* length of the engine's process-wide error queue
  ret,         \* what the last handler returned to the interpreter
  last,        \* the last handler called, with its arguments
  leaked,      \* native buffers the last handler allocated and did not free
  crashed,     \* the process died (invalid pointer dereferenced)
  nameValidityFlags  \* the engine's process-wide name-validity flags

vars == <<dataset_f, outside, n_errors, ret, last, leaked, crashed,
          nameValidityFlags>>

----------------------------------------------------------------------------
(* Sizes.                                                                  *)

CAPACITY == 20          \* SDDS_DATASET dataset_f[20]

TableSlots == 2         \* slots of the table the model keeps (0..TableSlots-1)
MaxErrors == 2          \* cap of the error queue length explored
FilePages == 2          \* pages of the multi-page input file
FileRows == 2           \* rows of the last page of the input files
MaxRows == 2            \* rows allocated by start-page

----------------------------------------------------------------------------
(* Python objects handed to and returned by the handlers.                  *)
(* A text is a sequence of one-character strings.  A double x is written   *)
(* as the integer d with x = 1 + d * 10^-8.                                *)

PyLong(n) == [k |-> "int", i |-> n, s |-> <<>>]
PyFloat(d) == [k |-> "float", i |-> d, s |-> <<>>]
PyStr(s) == [k |-> "str", i |-> 0, s |-> s]
PyNone == [k |-> "none", i |-> 0, s |-> <<>>]
PyComplex == [k |-> "complex", i |-> 0, s |-> <<>>]

PyString_Check(o) == o.k = "str"
PyLong_Check(o) == o.k = "int"
PyFloat_Check(o) == o.k = "float"
PyNumber_Check(o) == o.k \in {"int", "float", "complex"}

\* A C string: NULL or a text.
NullStr == [null |-> TRUE, s |-> <<>>]
CStr(s) == [null |-> FALSE, s |-> s]

\* (mutant) the empty text is handed on as it is
EmptyToNull_Kept(c) == c

\* strlen(x) == 0 turns an optional attribute into NULL
EmptyToNull(c) == IF ~c.null /\ Len(c.s) = 0 THEN NullStr ELSE c

\* Conversions of the C API: the value, and whether the error indicator is set.
PyLong_AsLong(o) ==
  IF o.k = "int" THEN [v |-> o.i, err |-> FALSE] ELSE [v |-> -1, err |-> TRUE]

\* UTF-8.  The texts are ASCII but for the code point U+00E9, whose two
\* bytes are written 0xC3 and 0xA9.
NonAscii == "U+00E9"
Utf8Lead == "0xC3"
Utf8Tail == "0xA9"

RECURSIVE PyUnicode_AsUTF8(_)
PyUnicode_AsUTF8(s) ==
  IF s = <<>> THEN <<>>
  ELSE (IF Head(s) = NonAscii THEN <<Utf8Lead, Utf8Tail>> ELSE <<Head(s)>>)
       \o PyUnicode_AsUTF8(Tail(s))

\* the strict decoder: a lead byte wants its continuation byte, and a
\* continuation byte cannot stand alone
RECURSIVE PyUnicode_DecodeUTF8(_)
PyUnicode_DecodeUTF8(b) ==
  IF b = <<>> THEN [ok |-> TRUE, s |-> <<>>]
  ELSE IF Head(b) = Utf8Lead
  THEN IF Len(b) >= 2 /\ b[2] = Utf8Tail
       THEN LET r == PyUnicode_DecodeUTF8(SubSeq(b, 3, Len(b)))
            IN [ok |-> r.ok, s |-> <<NonAscii>> \o r.s]
       ELSE [ok |-> FALSE, s |-> <<>>]
  ELSE IF Head(b) = Utf8Tail THEN [ok |-> FALSE, s |-> <<>>]
  ELSE LET r == PyUnicode_DecodeUTF8(Tail(b))
       IN [ok |-> r.ok, s |-> <<Head(b)>> \o r.s]

PyString_AsString(o) ==
  IF o.k = "str" THEN [v |-> CStr(PyUnicode_AsUTF8(o.s)), err |-> FALSE]
  ELSE [v |-> NullStr, err |-> TRUE]

\* a new text object, or NULL with UnicodeDecodeError set
PyNULL == [k |-> "NULL", i |-> 0, s |-> <<>>]
PyString_FromString(s) ==
  LET r == PyUnicode_DecodeUTF8(s) IN IF r.ok THEN PyStr(r.s) ELSE PyNULL

\* the double of an int n is n itself: d = (n - 1) * 10^8
PyFloat_AsDouble(o) ==
  CASE o.k = "float" -> [v |-> o.i, err |-> FALSE]
    [] o.k = "int" -> [v |-> (o.i - 1) * 100000000, err |-> FALSE]
    [] OTHER -> [v |-> (0 - 2) * 100000000, err |-> TRUE]

\* What a handler returns: a NULL pointer or a new object; exc is the error
\* indicator left set at the return.
RetNULL(exc) == [k |-> "NULL", i |-> 0, s |-> <<>>, l |-> <<>>, exc |-> exc]
RetLong(n, exc) == [k |-> "int", i |-> n, s |-> <<>>, l |-> <<>>, exc |-> exc]
RetFloat(d, exc) == [k |-> "float", i |-> d, s |-> <<>>, l |-> <<>>, exc |-> exc]
RetStr(s, exc) == [k |-> "str", i |-> 0, s |-> s, l |-> <<>>, exc |-> exc]
RetNone == [k |-> "none", i |-> 0, s |-> <<>>, l |-> <<>>, exc |-> FALSE]
RetList(l, exc) == [k |-> "list", i |-> 0, s |-> <<>>, l |-> l, exc |-> exc]

\* The caller sees a failure: an exception is raised for a NULL return and for
\* a result returned with the error indicator set.
Raises(r) == r.k = "NULL" \/ r.exc

----------------------------------------------------------------------------
(* The files of the run: which exist, how many readable pages each holds,   *)
(* whether garbage follows the readable pages, and the rows of the last    *)
(* page.                                                                   *)

FileNames == {"missing", "empty", "data", "corrupt"}

FS(name) ==
  CASE name = "empty" -> [exists |-> TRUE, pages |-> 1, bad |-> FALSE, rows |-> 0]
    [] name = "data" -> [exists |-> TRUE, pages |-> FilePages, bad |-> FALSE, rows |-> FileRows]
    [] name = "corrupt" -> [exists |-> TRUE, pages |-> 1, bad |-> TRUE, rows |-> FileRows]
    [] OTHER -> [exists |-> FALSE, pages |-> 0, bad |-> FALSE, rows |-> 0]

\* Every file has one int32 column, r, and row j of a page holds the value j.
FileColumns ==
  <<[name |-> <<"r">>, symbol |-> [null |-> TRUE, s |-> <<>>],
     units |-> [null |-> TRUE, s |-> <<>>],
     description |-> [null |-> TRUE, s |-> <<>>],
     format_string |-> [null |-> TRUE, s |-> <<>>],
     type |-> "SDDS_LONG", fixed_value |-> [null |-> TRUE, s |-> <<>>],
     field_length |-> 0, dimensions |-> 0,
     group_name |-> [null |-> TRUE, s |-> <<>>]]>>

\* the rows of a page of the file: only the last page has any
PageRows(name, page) == IF page = FS(name).pages THEN FS(name).rows ELSE 0

RowValue(j) == [i |-> j, c |-> [null |-> TRUE, s |-> <<>>]]

----------------------------------------------------------------------------
(* One SDDS_DATASET.  A static array starts zeroed.                        *)

ZeroDataset ==
  [open |-> "none",            \* how the session was opened
   mode |-> 0,                 \* layout.data_mode.mode: SDDS_BINARY 1, SDDS_ASCII 2
   column_major |-> 0,         \* layout.data_mode.column_major
   fsync_data |-> 0,           \* layout.data_mode.fsync_data
   description |-> NullStr,
   contents |-> NullStr,
   file |-> "",
   page_number |-> 0,          \* pages read or started so far
   parameters |-> <<>>,        \* layout.parameter_definition
   columns |-> <<>>,           \* layout.column_definition
   arrays |-> <<>>,            \* layout.array_definition
   paged |-> FALSE,            \* a page is current
   n_rows_allocated |-> 0,
   n_rows |-> 0,
   parameter |-> <<>>,         \* parameter values of the page
   data |-> <<>>,              \* column data of the page
   array |-> <<>>]             \* array data of the page

InRange(fileIndex) == fileIndex \in 0..(CAPACITY - 1)

\* The slots the model keeps; no run names another index of the table.
Slots == 0..(TableSlots - 1)

\* One outcome of an engine call: its return value, the dataset afterwards and
\* the number of entries it pushed on the error queue.
Outcome(r, ds, nerr) == [r |-> r, ds |-> ds, nerr |-> nerr]

----------------------------------------------------------------------------
(* The storage engine's session calls.                                     *)

SDDS_InitializeInput(ds, filename) ==
  IF FS(filename).exists
  THEN {Outcome(1, [ZeroDataset EXCEPT !.open = "input", !.mode = 1,
                                        !.file = filename,
                                        !.columns = FileColumns], 0)}
  ELSE {Outcome(0, ZeroDataset, 1)}

SDDS_InitializeOutput(ds, data_mode, description, contents, filename) ==
  IF data_mode \in {1, 2}
  THEN {Outcome(1, [ZeroDataset EXCEPT !.open = "output", !.mode = data_mode,
                                        !.description = description,
                                        !.contents = contents,
                                        !.file = filename], 0)}
  ELSE {Outcome(0, ZeroDataset, 1)}

\* rows is the count the engine stores through rowsPresent
SDDS_InitializeAppendToPage(ds, filename) ==
  IF FS(filename).exists /\ ~FS(filename).bad
  THEN {[r |-> 1, nerr |-> 0, rows |-> FS(filename).rows,
         ds |-> [ZeroDataset EXCEPT !.open = "append", !.mode = 1,
                                    !.file = filename, !.paged = TRUE,
                                    !.page_number = FS(filename).pages,
                                    !.n_rows = FS(filename).rows,
                                    !.n_rows_allocated = FS(filename).rows]]}
  ELSE {[r |-> 0, nerr |-> 1, rows |-> 0, ds |-> ZeroDataset]}

SDDS_Terminate(ds) == {Outcome(1, ZeroDataset, 0)}

\* page number >= 1, -1 at the end of the file, 0 on error
SDDS_ReadPage(ds) ==
  IF ds.open # "input" THEN {Outcome(0, ds, 1)}
  ELSE IF ds.page_number < FS(ds.file).pages
  THEN {Outcome(ds.page_number + 1,
                [ds EXCEPT !.page_number = ds.page_number + 1, !.paged = TRUE,
                           !.n_rows = PageRows(ds.file, ds.page_number + 1),
                           !.n_rows_allocated = PageRows(ds.file, ds.page_number + 1),
                           !.data = <<[r \in 1..PageRows(ds.file, ds.page_number + 1) |->
                                        RowValue(r - 1)]>>], 0)}
  ELSE IF FS(ds.file).bad
  THEN {Outcome(0, [ds EXCEPT !.paged = FALSE, !.n_rows = 0, !.data = <<>>], 1)}
  ELSE {Outcome(0 - 1, [ds EXCEPT !.paged = FALSE, !.n_rows = 0, !.data = <<>>], 0)}

----------------------------------------------------------------------------
(* How a handler ends.                                                     *)

\* (mutant) the engine's outcome lands in every slot of the table
Store_EverySlot(fileIndex, out) ==
  /\ dataset_f' = [i \in Slots |-> out.ds]
  /\ n_errors' = n_errors + out.nerr
  /\ n_errors' <= MaxErrors
  /\ UNCHANGED <<outside, crashed>>

\* &dataset_f[fileIndex] for an index of the table: the engine's outcome is
\* stored in the slot and its errors are queued.
Store(fileIndex, out) ==
  /\ dataset_f' = [dataset_f EXCEPT ![fileIndex] = out.ds]
  /\ n_errors' = n_errors + out.nerr
  /\ n_errors' <= MaxErrors
  /\ UNCHANGED <<outside, crashed>>

Done(call, r, leak) ==
  /\ last' = call
  /\ ret' = r
  /\ leaked' = leak
  /\ UNCHANGED nameValidityFlags

\* &dataset_f[fileIndex] for an index outside the table is undefined behaviour:
\* the memory there is used as a dataset, and the process dies or goes on with
\* whatever the engine made of it.
Wild(fileIndex, call, results) ==
  /\ ~InRange(fileIndex)
  /\ outside' = outside \cup {fileIndex}
  /\ \/ crashed' = TRUE /\ Done(call, RetNULL(FALSE), {})
     \/ crashed' = FALSE /\ \E r \in results : Done(call, r, {})
  /\ UNCHANGED <<dataset_f, n_errors>>

Call(op, fileIndex, arg) == [op |-> op, fileIndex |-> fileIndex, arg |-> arg]

----------------------------------------------------------------------------
(* Session handlers.  A handler takes fileIndex as the caller gave it and   *)
(* uses dataset_f[fileIndex] with no test of the index or of the slot.      *)

SomeInt == {RetLong(0, FALSE), RetLong(1, FALSE)}

\* (mutant) a failed open is reported as the NULL pointer
InitializeInputResult_NullOnError(out) ==
  IF out.r # 1 THEN RetNULL(FALSE) ELSE RetLong(out.r, FALSE)

\* PyLong_FromLong(SDDS_InitializeInput(&dataset_f[fileIndex], filename))
InitializeInputResult(out) == RetLong(out.r, FALSE)

sddsdata_InitializeInput(fileIndex, filename) ==
  LET call == Call("InitializeInput", fileIndex, <<filename>>) IN
  /\ ~crashed
  /\ \/ /\ InRange(fileIndex)
        /\ \E out \in SDDS_InitializeInput(dataset_f[fileIndex], filename) :
             Store(fileIndex, out) /\ Done(call, InitializeInputResult(out), {})
     \/ Wild(fileIndex, call, SomeInt)

\* (mutant) the failure is reported as the integer 0, as a row count is
AppendToPageResult_ZeroOnError(out) ==
  IF out.r # 1 THEN RetLong(0, FALSE) ELSE RetLong(out.rows, FALSE)

\* result != 1 returns the NULL pointer, success returns rowsPresent
AppendToPageResult(out) ==
  IF out.r # 1 THEN RetNULL(FALSE) ELSE RetLong(out.rows, FALSE)

sddsdata_InitializeAppendToPage(fileIndex, filename) ==
  LET call == Call("InitializeAppendToPage", fileIndex, <<filename>>) IN
  /\ ~crashed
  /\ \/ /\ InRange(fileIndex)
        /\ \E out \in SDDS_InitializeAppendToPage(dataset_f[fileIndex], filename) :
             Store(fileIndex, out) /\ Done(call, AppendToPageResult(out), {})
     \/ Wild(fileIndex, call, SomeInt \cup {RetNULL(FALSE)})

sddsdata_InitializeOutput(fileIndex, data_mode, description, contents, filename) ==
  LET call == Call("InitializeOutput", fileIndex, <<data_mode, description, contents>>) IN
  /\ ~crashed
  /\ \/ /\ InRange(fileIndex)
        /\ \E out \in SDDS_InitializeOutput(dataset_f[fileIndex], data_mode,
                                            EmptyToNull(CStr(description)),
                                            EmptyToNull(CStr(contents)), filename) :
             Store(fileIndex, out) /\ Done(call, RetLong(out.r, FALSE), {})
     \/ Wild(fileIndex, call, SomeInt)

sddsdata_Terminate(fileIndex) ==
  LET call == Call("Terminate", fileIndex, <<>>) IN
  /\ ~crashed
  /\ \/ /\ InRange(fileIndex)
        /\ \E out \in SDDS_Terminate(dataset_f[fileIndex]) :
             Store(fileIndex, out) /\ Done(call, RetLong(out.r, FALSE), {})
     \/ Wild(fileIndex, call, SomeInt)

\* dataset_f[fileIndex].layout.data_mode.<field> = value; return Py_None
SetDataModeField(fileIndex, field, value) ==
  [dataset_f EXCEPT ![fileIndex] = [@ EXCEPT ![field] = value]]

SetFlag(op, fileIndex, field, value) ==
  LET call == Call(op, fileIndex, <<>>) IN
  /\ ~crashed
  /\ \/ /\ InRange(fileIndex)
        /\ dataset_f' = SetDataModeField(fileIndex, field, value)
        /\ Done(call, RetNone, {})
        /\ UNCHANGED <<outside, n_errors, crashed>>
     \/ Wild(fileIndex, call, {RetNone})

sddsdata_SetColumnMajorOrder(fileIndex) ==
  SetFlag("SetColumnMajorOrder", fileIndex, "column_major", 1)

sddsdata_SetRowMajorOrder(fileIndex) ==
  SetFlag("SetRowMajorOrder", fileIndex, "column_major", 0)

sddsdata_EnableFSync(fileIndex) ==
  SetFlag("EnableFSync", fileIndex, "fsync_data", 1)

sddsdata_DisableFSync(fileIndex) ==
  SetFlag("DisableFSync", fileIndex, "fsync_data", 0)

sddsdata_GetMode(fileIndex) ==
  LET call == Call("GetMode", fileIndex, <<>>) IN
  /\ ~crashed
  /\ \/ /\ InRange(fileIndex)
        /\ Done(call, RetLong(dataset_f[fileIndex].mode, FALSE), {})
        /\ UNCHANGED <<dataset_f, outside, n_errors, crashed>>
     \/ Wild(fileIndex, call, SomeInt \cup {RetLong(2, FALSE)})

\* (mutant) the engine's result is reduced to a success flag
ReadPageResult_AsFlag(out) == RetLong(IF out.r # 0 THEN 1 ELSE 0, FALSE)

\* PyLong_FromLong(SDDS_ReadPage(&dataset_f[fileIndex]))
ReadPageResult(out) == RetLong(out.r, FALSE)

sddsdata_ReadPage(fileIndex) ==
  LET call == Call("ReadPage", fileIndex, <<>>) IN
  /\ ~crashed
  /\ \/ /\ InRange(fileIndex)
        /\ \E out \in SDDS_ReadPage(dataset_f[fileIndex]) :
             Store(fileIndex, out) /\ Done(call, ReadPageResult(out), {})
     \/ Wild(fileIndex, call, SomeInt \cup {RetLong(0 - 1, FALSE)})

----------------------------------------------------------------------------
(* The handle table: sessions opened, used and terminated on one index of   *)
(* the table and on two indices outside it.                                *)

HandleInputs == {0 - 1, 0, CAPACITY}
DataModes == {1, 2, 3}
Descriptions == {<<>>, <<"d">>}

Init ==
  /\ dataset_f = [i \in Slots |-> ZeroDataset]
  /\ outside = {}
  /\ n_errors = 0
  /\ ret = RetNone
  /\ last = Call("none", 0, <<>>)
  /\ leaked = {}
  /\ crashed = FALSE
  /\ nameValidityFlags = 0

Next ==
  \E fileIndex \in HandleInputs :
    \/ \E filename \in FileNames : sddsdata_InitializeInput(fileIndex, filename)
    \/ \E filename \in FileNames : sddsdata_InitializeAppendToPage(fileIndex, filename)
    \/ \E data_mode \in DataModes, description \in Descriptions :
         sddsdata_InitializeOutput(fileIndex, data_mode, description, <<>>, "out")
    \/ sddsdata_Terminate(fileIndex)
    \/ sddsdata_SetColumnMajorOrder(fileIndex)
    \/ sddsdata_SetRowMajorOrder(fileIndex)
    \/ sddsdata_EnableFSync(fileIndex)
    \/ sddsdata_DisableFSync(fileIndex)
    \/ sddsdata_GetMode(fileIndex)
    \/ sddsdata_ReadPage(fileIndex)

Spec == Init /\ [][Next]_vars

----------------------------------------------------------------------------
(* Claims about the handle table.                                          *)

\* The value a handler documents for an error: the NULL pointer, 0 or -1.
IsSentinel(r) == r.k = "NULL" \/ (r.k = "int" /\ r.i \in {0, 0 - 1})

FlagOps == {"SetColumnMajorOrder", "SetRowMajorOrder", "EnableFSync",
            "DisableFSync", "GetMode"}

\* C1: an operation issued against an index of the table whose slot is not
\* open (never opened, or terminated and not reopened) returns its error
\* sentinel and leaves the slot unchanged.  Stated for the flag setters and
\* get-mode, which use the slot themselves.
C1_UnopenedFailsCleanly ==
  [][\A i \in Slots :
       (last'.fileIndex = i /\ last'.op \in FlagOps /\ dataset_f[i].open = "none")
         => (dataset_f'[i] = dataset_f[i] /\ IsSentinel(ret'))]_vars

\* C2: an index outside [0, CAPACITY) yields the unknown-handle sentinel and no
\* memory outside the table is read or written.
C2_OutOfRangeRejected ==
  ~InRange(last.fileIndex) => (outside = {} /\ ~crashed /\ IsSentinel(ret))

\* The slot the last call named.
LastSlot == dataset_f[last.fileIndex]

ReadSucceeded == LastSlot.open = "input" /\ LastSlot.paged
ReadAtEnd ==
  /\ LastSlot.open = "input" /\ ~LastSlot.paged
  /\ LastSlot.page_number = FS(LastSlot.file).pages /\ ~FS(LastSlot.file).bad

\* C3: read-page returns the page number (>= 1) exactly when a page was read,
\* -1 exactly at the clean end of the file, and 0 exactly otherwise.
C3_ReadPageOutcomes ==
  (last.op = "ReadPage" /\ InRange(last.fileIndex)) =>
    /\ ret.k = "int" /\ ~ret.exc
    /\ ReadSucceeded => (ret.i = LastSlot.page_number /\ ret.i >= 1)
    /\ ReadAtEnd => ret.i = 0 - 1
    /\ (~ReadSucceeded /\ ~ReadAtEnd) => ret.i = 0
    /\ ret.i >= 1 => ReadSucceeded
    /\ ret.i = 0 - 1 => ReadAtEnd

\* C3 witness: the second page was read, and a later read met the end of file
C3_Witness ==
  /\ last.op = "ReadPage" /\ last.fileIndex = 0
  /\ ret.i = 0 - 1
  /\ dataset_f[0].page_number = FilePages

----------------------------------------------------------------------------
(* The type marshaller: the ten SDDS type tags, the cell each tag stores,   *)
(* and the conversions between Python objects and cells.                    *)
(*                                                                          *)
(* Integers of the model lie in the int32 range.  A cell of an unsigned     *)
(* 32- or 64-bit tag whose top bit is set is written as the negative        *)
(* integer with the same bit pattern (all bits set is 0 - 1).               *)
(* A float32 near 1.0 is written as the integer k with x = 1 + k * 2^-23,   *)
(* a double as the integer d with x = 1 + d * 10^-8.                        *)

Tags == {"SDDS_SHORT", "SDDS_USHORT", "SDDS_LONG", "SDDS_ULONG", "SDDS_LONG64",
         "SDDS_ULONG64", "SDDS_FLOAT", "SDDS_DOUBLE", "SDDS_CHARACTER",
         "SDDS_STRING"}

\* what SDDS_GetColumnType and its siblings return for a bad index
NoType == "0"

ShortSpan == 65536         \* 2^16, values of a 16-bit cell
ShortHalf == 32768         \* 2^15
UlpsPerUnit == 8388608     \* 2^23, float32 steps between 1.0 and 2.0
DoubleUnit == 100000000    \* 10^8, steps of the double scale per unit

\* (short)n and (unsigned short)n of a C long
ToShort(n) == ((n + ShortHalf) % ShortSpan) - ShortHalf
ToUShort(n) == n % ShortSpan

\* round(a / b) for b > 0
RoundDiv(a, b) == (2 * a + b) \div (2 * b)

\* (float)x of a double: the nearest float32
ToFloat(d) ==
  IF d % DoubleUnit = 0
  THEN (d \div DoubleUnit) * UlpsPerUnit
  ELSE RoundDiv(d * 32768, 390625)

\* sprintf(buffer, "%.6E", f) followed by atof(buffer): the float32 written
\* with six digits after the point and read back as a double
SixDigits(k) ==
  IF k % UlpsPerUnit = 0
  THEN (k \div UlpsPerUnit) * DoubleUnit
  ELSE 100 * RoundDiv(k * 15625, 131072)

\* the same rounding applied to a double
SixDigitsOfDouble(d) ==
  IF d % DoubleUnit = 0 THEN d ELSE 100 * RoundDiv(d, 100)

Digit(n) == <<"0", "1", "2", "3", "4", "5", "6", "7", "8", "9">>[n + 1]

RECURSIVE ToDecimal(_)
ToDecimal(n) ==
  IF n < 0 THEN <<"-">> \o ToDecimal(0 - n)
  ELSE IF n < 10 THEN <<Digit(n)>>
  ELSE ToDecimal(n \div 10) \o <<Digit(n % 10)>>

RECURSIVE ZeroPad(_, _)
ZeroPad(t, width) == IF Len(t) >= width THEN t ELSE ZeroPad(<<"0">> \o t, width)

\* SDDS_SprintTypedValue(&v, 0, SDDS_LONG, NULL, buffer, 0): "%d" of an int32
SprintLong(n) == ToDecimal(n)

\* SDDS_SprintTypedValue(&v, 0, SDDS_DOUBLE, NULL, buffer, 0): "%21.15e" of a
\* double in [1, 10)
SprintDouble(d) ==
  <<Digit(1 + d \div DoubleUnit), ".">> \o ZeroPad(ToDecimal(d % DoubleUnit), 8)
    \o <<"0", "0", "0", "0", "0", "0", "0", "e", "+", "0", "0">>

\* A cell: an integer, float32 or double in i; a byte or a char * in c
\* (a byte as a text of length one, the NUL byte as the empty text).
IntCell(n) == [i |-> n, c |-> NullStr]
CharCell(t) == [i |-> 0, c |-> CStr(t)]
StrCell(c) == [i |-> 0, c |-> c]

\* zeroed memory read as a cell of the tag
ZeroCell(type) ==
  CASE type = "SDDS_FLOAT" -> IntCell(0 - UlpsPerUnit)
    [] type = "SDDS_DOUBLE" -> IntCell(0 - DoubleUnit)
    [] type = "SDDS_CHARACTER" -> CharCell(<<>>)
    [] type = "SDDS_STRING" -> StrCell(NullStr)
    [] OTHER -> IntCell(0)

\* PyLong_AsUnsignedLong / PyLong_AsUnsignedLongLong: a negative int or a
\* non-int is an error and (unsigned long)-1
PyLong_AsUnsignedLong(o) ==
  IF o.k = "int" /\ o.i >= 0 THEN [v |-> o.i, err |-> FALSE]
  ELSE [v |-> 0 - 1, err |-> TRUE]

PyLong_AsLongLong(o) == PyLong_AsLong(o)

\* s[0] of a C string
FirstByte(t) == IF Len(t) = 0 THEN <<>> ELSE <<t[1]>>

\* One converted element: the cell, whether the conversion left a Python
\* error pending, and whether it read through a NULL pointer.
Conv(cell, err, deref) == [cell |-> cell, err |-> err, deref |-> deref]

\* the per-tag conversion of one Python object, as each case of the switch
\* writes it
ElementToCell(type, o) ==
  CASE type = "SDDS_SHORT" ->
         LET r == PyLong_AsLong(o) IN Conv(IntCell(ToShort(r.v)), r.err, FALSE)
    [] type = "SDDS_USHORT" ->
         LET r == PyLong_AsLong(o) IN Conv(IntCell(ToUShort(r.v)), r.err, FALSE)
    [] type = "SDDS_LONG" ->
         LET r == PyLong_AsLong(o) IN Conv(IntCell(r.v), r.err, FALSE)
    [] type = "SDDS_ULONG" ->
         LET r == PyLong_AsUnsignedLong(o) IN Conv(IntCell(r.v), r.err, FALSE)
    [] type = "SDDS_LONG64" ->
         LET r == PyLong_AsLongLong(o) IN Conv(IntCell(r.v), r.err, FALSE)
    [] type = "SDDS_ULONG64" ->
         LET r == PyLong_AsUnsignedLong(o) IN Conv(IntCell(r.v), r.err, FALSE)
    [] type = "SDDS_FLOAT" ->
         LET r == PyFloat_AsDouble(o) IN Conv(IntCell(ToFloat(r.v)), r.err, FALSE)
    [] type = "SDDS_DOUBLE" ->
         LET r == PyFloat_AsDouble(o) IN Conv(IntCell(r.v), r.err, FALSE)
    [] type = "SDDS_CHARACTER" ->
         LET r == PyString_AsString(o)
         IN IF r.v.null THEN Conv(CharCell(<<>>), TRUE, TRUE)
            ELSE Conv(CharCell(FirstByte(r.v.s)), FALSE, FALSE)
    [] OTHER ->
         LET r == PyString_AsString(o) IN Conv(StrCell(r.v), r.err, FALSE)

\* a Python list converted element by element
ListToCells(type, v) == [j \in 1..Len(v) |-> ElementToCell(type, v[j])]
AnyErr(convs) == \E j \in 1..Len(convs) : convs[j].err
AnyDeref(convs) == \E j \in 1..Len(convs) : convs[j].deref
CellsOf(convs) == [j \in 1..Len(convs) |-> convs[j].cell]

\* PyLong_FromUnsignedLong / PyLong_FromUnsignedLongLong of a cell: a pattern
\* with the top bit set is the int 2^w + i, marked in s
PyLong_FromUnsignedLong(bits, width) ==
  IF bits >= 0 THEN PyLong(bits)
  ELSE [k |-> "int", i |-> bits, s |-> <<"+", "2", "^">> \o ToDecimal(width)]

\* the Python object built from a cell, as each case of the switch builds it;
\* PyString_FromString(NULL) reads through a NULL pointer
CellToPy(type, cell) ==
  CASE type \in {"SDDS_SHORT", "SDDS_USHORT", "SDDS_LONG", "SDDS_LONG64"} ->
         PyLong(cell.i)
    [] type = "SDDS_ULONG" -> PyLong_FromUnsignedLong(cell.i, 32)
    [] type = "SDDS_ULONG64" -> PyLong_FromUnsignedLong(cell.i, 64)
    [] type = "SDDS_FLOAT" -> PyFloat(SixDigits(cell.i))
    [] type = "SDDS_DOUBLE" -> PyFloat(cell.i)
    [] OTHER -> PyString_FromString(cell.c.s)

CellDeref(type, cell) == type = "SDDS_STRING" /\ cell.c.null

RetObj(o, exc) == [k |-> o.k, i |-> o.i, s |-> o.s, l |-> <<>>, exc |-> exc]

----------------------------------------------------------------------------
(* The storage engine's schema and page calls.  Names are C strings; an     *)
(* index is zero-based as in C, and position index + 1 of the sequence.     *)

PARAMETER_DEFINITION(name, symbol, units, description, format_string, type, fixed_value) ==
  [name |-> name.s, symbol |-> symbol, units |-> units,
   description |-> description, format_string |-> format_string,
   type |-> type, fixed_value |-> fixed_value, field_length |-> 0,
   dimensions |-> 0, group_name |-> NullStr]

COLUMN_DEFINITION(name, symbol, units, description, format_string, type, field_length) ==
  [name |-> name.s, symbol |-> symbol, units |-> units,
   description |-> description, format_string |-> format_string,
   type |-> type, fixed_value |-> NullStr, field_length |-> field_length,
   dimensions |-> 0, group_name |-> NullStr]

ARRAY_DEFINITION(name, symbol, units, description, format_string, type, field_length, dimensions, group_name) ==
  [name |-> name.s, symbol |-> symbol, units |-> units,
   description |-> description, format_string |-> format_string,
   type |-> type, fixed_value |-> NullStr, field_length |-> field_length,
   dimensions |-> dimensions, group_name |-> group_name]

\* index of the definition with the name, -1 when there is none
FieldIndex(defs, name) ==
  IF ~name.null /\ \E j \in 1..Len(defs) : defs[j].name = name.s
  THEN (CHOOSE j \in 1..Len(defs) : defs[j].name = name.s) - 1
  ELSE 0 - 1

HasIndex(defs, index) == index >= 0 /\ index < Len(defs)

SDDS_ALLOW_ANY_NAME == 1

\* characters a name cannot begin with, and the character that stands for
\* those a name cannot hold
Digits == {"0", "1", "2", "3", "4", "5", "6", "7", "8", "9"}
Blank == " "

\* the engine accepts any name once the flag is set; else the name is not
\* empty, does not begin with a digit and holds no character outside the
\* allowed ones
SDDS_IsValidName(name) ==
  \/ nameValidityFlags = SDDS_ALLOW_ANY_NAME
  \/ /\ Len(name) > 0
     /\ name[1] \notin Digits
     /\ \A j \in 1..Len(name) : name[j] # Blank

\* (mutant) a name already taken is accepted again
Definable_NameReused(ds, defs, name, type) ==
  /\ ds.open # "none"
  /\ ~name.null /\ SDDS_IsValidName(name.s)
  /\ type \in Tags

\* a definition is accepted on an open dataset when the name is valid and
\* not taken and the type is one of the ten tags
Definable(ds, defs, name, type) ==
  /\ ds.open # "none"
  /\ ~name.null /\ SDDS_IsValidName(name.s)
  /\ FieldIndex(defs, name) < 0
  /\ type \in Tags

SDDS_DefineParameter(ds, name, symbol, units, description, format_string, type, fixed_value) ==
  IF Definable(ds, ds.parameters, name, type)
  THEN Outcome(Len(ds.parameters),
               [ds EXCEPT !.parameters = Append(@,
                  PARAMETER_DEFINITION(name, symbol, units, description,
                                       format_string, type, fixed_value))], 0)
  ELSE Outcome(0 - 1, ds, 1)

\* the fixed value comes as a pointer to a typed value; NULL is no fixed value
SDDS_DefineParameter1(ds, name, symbol, units, description, format_string, type) ==
  SDDS_DefineParameter(ds, name, symbol, units, description, format_string,
                       type, NullStr)

SDDS_DefineColumn(ds, name, symbol, units, description, format_string, type, field_length) ==
  IF Definable(ds, ds.columns, name, type)
  THEN Outcome(Len(ds.columns),
               [ds EXCEPT !.columns = Append(@,
                  COLUMN_DEFINITION(name, symbol, units, description,
                                    format_string, type, field_length))], 0)
  ELSE Outcome(0 - 1, ds, 1)

SDDS_DefineArray(ds, name, symbol, units, description, format_string, type, field_length, dimensions, group_name) ==
  IF Definable(ds, ds.arrays, name, type) /\ dimensions >= 1
  THEN Outcome(Len(ds.arrays),
               [ds EXCEPT !.arrays = Append(@,
                  ARRAY_DEFINITION(name, symbol, units, description,
                                   format_string, type, field_length,
                                   dimensions, group_name))], 0)
  ELSE Outcome(0 - 1, ds, 1)

\* the data of one array of the page
SDDS_ARRAY(dimension, data) ==
  [dimension |-> dimension, elements |-> Len(data), data |-> data]

\* a new page: rows allocated, every value zeroed
SDDS_StartPage(ds, expected_n_rows) ==
  IF ds.open = "none" THEN Outcome(0, ds, 1)
  ELSE LET rows == IF expected_n_rows <= 0 THEN 1 ELSE expected_n_rows IN
    Outcome(1,
      [ds EXCEPT !.paged = TRUE, !.page_number = 1,
         !.n_rows = 0, !.n_rows_allocated = rows,
         !.parameter = [j \in 1..Len(ds.parameters) |->
                          ZeroCell(ds.parameters[j].type)],
         !.data = [j \in 1..Len(ds.columns) |->
                     [r \in 1..rows |-> ZeroCell(ds.columns[j].type)]],
         !.array = [j \in 1..Len(ds.arrays) |->
                      SDDS_ARRAY([q \in 1..ds.arrays[j].dimensions |-> 0], <<>>)]],
      0)

SDDS_GetParameterIndex(ds, name) == FieldIndex(ds.parameters, name)
SDDS_GetColumnIndex(ds, name) == FieldIndex(ds.columns, name)
SDDS_GetArrayIndex(ds, name) == FieldIndex(ds.arrays, name)

TypeAt(defs, index) == IF HasIndex(defs, index) THEN defs[index + 1].type ELSE NoType
SDDS_GetParameterType(ds, index) == TypeAt(ds.parameters, index)
SDDS_GetColumnType(ds, index) == TypeAt(ds.columns, index)

\* the name list is a buffer of the caller
NamesOf(defs) == [j \in 1..Len(defs) |-> defs[j].name]
SDDS_GetParameterNames(ds) == NamesOf(ds.parameters)
SDDS_GetColumnNames(ds) == NamesOf(ds.columns)
SDDS_GetArrayNames(ds) == NamesOf(ds.arrays)

\* a copy of the definition (a buffer of the caller), or NULL
SDDS_GetArrayDefinition(ds, name) ==
  LET index == FieldIndex(ds.arrays, name) IN
  IF index < 0 THEN [null |-> TRUE, type |-> NoType, dimensions |-> 0]
  ELSE [null |-> FALSE, type |-> ds.arrays[index + 1].type,
        dimensions |-> ds.arrays[index + 1].dimensions]

SDDS_RowCount(ds) == ds.n_rows

SDDS_SetParameters(ds, index, cell) ==
  IF ds.paged /\ HasIndex(ds.parameters, index) /\ index < Len(ds.parameter)
  THEN Outcome(1, [ds EXCEPT !.parameter[index + 1] = cell], 0)
  ELSE Outcome(0, ds, 1)

\* a whole column: the rows must fit the allocation and agree with the rows
\* already in the page
SDDS_SetColumn(ds, cells, rows, index) ==
  IF /\ ds.paged /\ HasIndex(ds.columns, index) /\ index < Len(ds.data)
     /\ rows <= ds.n_rows_allocated
     /\ (ds.n_rows = 0 \/ ds.n_rows = rows)
  THEN Outcome(1, [ds EXCEPT !.n_rows = rows,
                     !.data[index + 1] = [r \in 1..ds.n_rows_allocated |->
                        IF r <= rows THEN cells[r] ELSE @[r]]], 0)
  ELSE Outcome(0, ds, 1)

\* one cell of one row; the row count grows to cover the row
SDDS_SetRowValues(ds, row, index, cell) ==
  IF /\ ds.paged /\ HasIndex(ds.columns, index) /\ index < Len(ds.data)
     /\ row >= 0 /\ row < ds.n_rows_allocated
  THEN Outcome(1, [ds EXCEPT !.n_rows = IF row + 1 > @ THEN row + 1 ELSE @,
                     !.data[index + 1][row + 1] = cell], 0)
  ELSE Outcome(0, ds, 1)

RECURSIVE Product(_)
Product(dimension) ==
  IF Len(dimension) = 0 THEN 1 ELSE Head(dimension) * Product(Tail(dimension))

\* the engine copies as many elements as the shape names, whatever the
\* length of the buffer it is given: overread says it read past the buffer
SDDS_SetArray(ds, name, type, cells, dimension) ==
  LET index == FieldIndex(ds.arrays, name)
      elements == Product(dimension)
  IN IF /\ ds.paged /\ index >= 0 /\ index < Len(ds.array)
        /\ \A q \in 1..Len(dimension) : dimension[q] >= 0
     THEN [r |-> 1, nerr |-> 0, overread |-> elements > Len(cells),
           ds |-> [ds EXCEPT !.array[index + 1] =
                     SDDS_ARRAY(dimension, [j \in 1..elements |->
                        IF j <= Len(cells) THEN cells[j] ELSE ZeroCell(type)])]]
     ELSE [r |-> 0, nerr |-> 1, overread |-> FALSE, ds |-> ds]

\* copies handed to the caller, NULL when there is nothing to copy
SDDS_GetParameter(ds, name) ==
  LET index == FieldIndex(ds.parameters, name) IN
  IF ds.paged /\ index >= 0 /\ index < Len(ds.parameter)
  THEN [null |-> FALSE, cell |-> ds.parameter[index + 1]]
  ELSE [null |-> TRUE, cell |-> IntCell(0)]

SDDS_GetColumn(ds, name) ==
  LET index == FieldIndex(ds.columns, name) IN
  IF ds.paged /\ index >= 0 /\ index < Len(ds.data) /\ ds.n_rows > 0
  THEN [null |-> FALSE, cells |-> SubSeq(ds.data[index + 1], 1, ds.n_rows)]
  ELSE [null |-> TRUE, cells |-> <<>>]

SDDS_GetArray(ds, name) ==
  LET index == FieldIndex(ds.arrays, name) IN
  IF ds.paged /\ index >= 0 /\ index < Len(ds.array)
  THEN [null |-> FALSE, type |-> ds.arrays[index + 1].type,
        dimensions |-> ds.arrays[index + 1].dimensions,
        dimension |-> ds.array[index + 1].dimension,
        elements |-> ds.array[index + 1].elements,
        data |-> ds.array[index + 1].data]
  ELSE [null |-> TRUE, type |-> NoType, dimensions |-> 0, dimension |-> <<>>,
        elements |-> 0, data |-> <<>>]

----------------------------------------------------------------------------
(* Schema and data handlers.  Each is written as the result of the call on  *)
(* the dataset of the slot: the dataset afterwards, the value returned, the *)
(* buffers allocated by the call and not released, the errors queued, and   *)
(* whether the call read through a NULL pointer or past a buffer.           *)

Res(ds, r, leak, nerr) ==
  [ds |-> ds, r |-> r, leak |-> leak, nerr |-> nerr, deref |-> FALSE]

\* a read through NULL or past a buffer is undefined: the process dies, or it
\* survives and the call ends as res says
Undefined(res) == [res EXCEPT !.deref = TRUE]

Finish(fileIndex, call, res) ==
  /\ n_errors' = n_errors + res.nerr
  /\ n_errors' <= MaxErrors
  /\ UNCHANGED outside
  /\ \/ /\ res.deref
        /\ crashed' = TRUE
        /\ dataset_f' = dataset_f
        /\ Done(call, RetNULL(FALSE), {})
     \/ /\ crashed' = FALSE
        /\ dataset_f' = [dataset_f EXCEPT ![fileIndex] = res.ds]
        /\ Done(call, res.r, res.leak)

\* (mutant) a name selects the first field, whatever the name is
IndexOrName_FirstField(defs, indexOrName) ==
  IF PyString_Check(indexOrName)
  THEN [ok |-> TRUE, index |-> 0]
  ELSE IF PyNumber_Check(indexOrName) /\ PyLong_Check(indexOrName)
  THEN [ok |-> TRUE, index |-> PyLong_AsLong(indexOrName).v]
  ELSE [ok |-> FALSE, index |-> 0 - 1]

\* if (PyString_Check(indexOrName)) index = SDDS_Get...Index(...);
\* else if (PyNumber_Check(indexOrName)) ... index = PyLong_AsLong(...)
IndexOrName(defs, indexOrName) ==
  IF PyString_Check(indexOrName)
  THEN [ok |-> TRUE, index |-> FieldIndex(defs, CStr(indexOrName.s))]
  ELSE IF PyNumber_Check(indexOrName) /\ PyLong_Check(indexOrName)
  THEN [ok |-> TRUE, index |-> PyLong_AsLong(indexOrName).v]
  ELSE [ok |-> FALSE, index |-> 0 - 1]

LongBits == 64             \* width of a C long

\* the int 2^power + low, for power >= 32 and low an int32: too large to be
\* written as an integer here, it keeps its low 32 bits in i and the power in s
BigInt(low, power) ==
  [k |-> "int", i |-> low, s |-> <<"+", "2", "^">> \o ToDecimal(power)]

\* the int lies in the range of a C long
FitsLong(o) ==
  \/ o.s = <<>>
  \/ \E power \in 32..(LongBits - 2) : o.s = BigInt(0, power).s
  \/ o.s = BigInt(0, LongBits - 1).s /\ o.i < 0

\* (int32_t)PyLong_AsLong(o): the low 32 bits of the long; PyLong_AsLong of
\* an int outside the range of a long is -1 with OverflowError set
Int32OfLong(o) ==
  IF FitsLong(o) THEN [v |-> o.i, err |-> FALSE] ELSE [v |-> 0 - 1, err |-> TRUE]

\* the fixed value handed to the engine: which define call is made, and the
\* text it is given
FixedValue_Verbatim(fixed_value) ==
  IF PyString_Check(fixed_value)
  THEN [plain |-> FALSE, err |-> FALSE, text |-> PyString_AsString(fixed_value).v]
  ELSE IF PyNumber_Check(fixed_value) /\ PyLong_Check(fixed_value)
  THEN [plain |-> FALSE, err |-> Int32OfLong(fixed_value).err,
        text |-> CStr(SprintLong(Int32OfLong(fixed_value).v))]
  ELSE IF PyNumber_Check(fixed_value) /\ PyFloat_Check(fixed_value)
  THEN [plain |-> FALSE, err |-> FALSE,
        text |-> CStr(SprintDouble(PyFloat_AsDouble(fixed_value).v))]
  ELSE [plain |-> TRUE, err |-> FALSE, text |-> NullStr]

FixedValue(fixed_value) ==
  IF PyString_Check(fixed_value)
  THEN [plain |-> FALSE, err |-> FALSE,
        text |-> EmptyToNull(PyString_AsString(fixed_value).v)]
  ELSE IF PyNumber_Check(fixed_value) /\ PyLong_Check(fixed_value)
  THEN [plain |-> FALSE, err |-> Int32OfLong(fixed_value).err,
        text |-> CStr(SprintLong(Int32OfLong(fixed_value).v))]
  ELSE IF PyNumber_Check(fixed_value) /\ PyFloat_Check(fixed_value)
  THEN [plain |-> FALSE, err |-> FALSE,
        text |-> CStr(SprintDouble(PyFloat_AsDouble(fixed_value).v))]
  ELSE [plain |-> TRUE, err |-> FALSE, text |-> NullStr]

DefineParameterOn(ds, name, symbol, units, description, format_string, type, fixed_value) ==
  LET fv == FixedValue(fixed_value)
      out == IF fv.plain
             THEN SDDS_DefineParameter1(ds, CStr(name), EmptyToNull(CStr(symbol)),
                     EmptyToNull(CStr(units)), EmptyToNull(CStr(description)),
                     EmptyToNull(CStr(format_string)), type)
             ELSE SDDS_DefineParameter(ds, CStr(name), EmptyToNull(CStr(symbol)),
                     EmptyToNull(CStr(units)), EmptyToNull(CStr(description)),
                     EmptyToNull(CStr(format_string)), type, fv.text)
  IN Res(out.ds, RetLong(out.r, fv.err), {}, out.nerr)

DefineColumnOn(ds, name, symbol, units, description, format_string, type, field_length) ==
  LET out == SDDS_DefineColumn(ds, CStr(name), EmptyToNull(CStr(symbol)),
                EmptyToNull(CStr(units)), EmptyToNull(CStr(description)),
                EmptyToNull(CStr(format_string)), type, field_length)
  IN Res(out.ds, RetLong(out.r, FALSE), {}, out.nerr)

DefineArrayOn(ds, name, symbol, units, description, format_string, group_name, type, field_length, dimensions) ==
  LET out == SDDS_DefineArray(ds, CStr(name), EmptyToNull(CStr(symbol)),
                EmptyToNull(CStr(units)), EmptyToNull(CStr(description)),
                EmptyToNull(CStr(format_string)), type, field_length,
                dimensions, EmptyToNull(CStr(group_name)))
  IN Res(out.ds, RetLong(out.r, FALSE), {}, out.nerr)

StartPageOn(ds, expected_n_rows) ==
  LET out == SDDS_StartPage(ds, expected_n_rows)
  IN Res(out.ds, RetLong(out.r, FALSE), {}, out.nerr)

SetParameterOn(ds, indexOrName, v) ==
  LET lk == IndexOrName(ds.parameters, indexOrName)
      type == SDDS_GetParameterType(ds, lk.index)
      conv == ElementToCell(type, v)
      out == SDDS_SetParameters(ds, lk.index, conv.cell)
      res == Res(out.ds, RetLong(out.r, conv.err), {}, out.nerr)
  IN IF ~lk.ok THEN Res(ds, RetNULL(FALSE), {}, 0)
     ELSE IF type = NoType THEN Res(ds, RetNULL(FALSE), {}, 1)
     ELSE IF conv.deref THEN Undefined(res)
     ELSE res

SetColumnOn(ds, indexOrName, v) ==
  LET lk == IndexOrName(ds.columns, indexOrName)
      type == SDDS_GetColumnType(ds, lk.index)
      rows == Len(v)
      data == ListToCells(type, v)
      out == SDDS_SetColumn(ds, CellsOf(data), rows, lk.index)
      res == Res(out.ds, RetLong(out.r, AnyErr(data)), {}, out.nerr)
  IN IF ~lk.ok THEN Res(ds, RetNULL(FALSE), {}, 0)
     ELSE IF type = NoType THEN Res(ds, RetNULL(FALSE), {}, 1)
     ELSE IF AnyDeref(data) THEN Undefined(res)
     ELSE res

\* v is a list of (name, value) pairs; they are applied one after the other
RECURSIVE SetRowValuesFrom(_, _, _, _)
SetRowValuesFrom(ds, row, v, exc) ==
  IF Len(v) < 2 THEN Res(ds, RetLong(1, exc), {}, 0)
  ELSE
    LET name == PyString_AsString(v[1])
        index == SDDS_GetColumnIndex(ds, name.v)
        temp == v[2]
        type == SDDS_GetColumnType(ds, index)
        conv == ElementToCell(type, temp)
        out == SDDS_SetRowValues(ds, row, index, conv.cell)
        rest == SetRowValuesFrom(out.ds, row, SubSeq(v, 3, Len(v)),
                                 exc \/ name.err \/ conv.err)
    IN IF type = NoType THEN Res(ds, RetNULL(exc \/ name.err), {}, 1)
       ELSE IF out.r = 0
       THEN Res(ds, RetNULL(exc \/ name.err \/ conv.err), {}, 1)
       ELSE IF conv.deref THEN Undefined(rest)
       ELSE rest

SetRowValuesOn(ds, row, v) == SetRowValuesFrom(ds, row, v, FALSE)

\* if (dimensions != PyList_Size(dim)) return 0;
ShapeAccepted_Always(dimensions, dim) == TRUE

ShapeAccepted(dimensions, dim) == dimensions = Len(dim)

\* PyList_GetItem(dim, i)
DimItem(dim, q) == IF q <= Len(dim) THEN dim[q] ELSE PyNone

SetArrayOn(ds, indexOrName, v, dim) ==
  LET byName == PyString_Check(indexOrName)
      lk == IndexOrName(ds.arrays, indexOrName)
      names == SDDS_GetArrayNames(ds)
      number == Len(names)
      held == IF byName THEN {} ELSE {"names"}
      name == IF byName THEN CStr(indexOrName.s)
              ELSE IF HasIndex(ds.arrays, lk.index) THEN CStr(names[lk.index + 1])
              ELSE NullStr
      arraydef == SDDS_GetArrayDefinition(ds, name)
      type == arraydef.type
      dimensions == arraydef.dimensions
      badDim == {q \in 1..dimensions : ~PyLong_Check(DimItem(dim, q))}
      dimension == [q \in 1..dimensions |-> PyLong_AsLong(DimItem(dim, q)).v]
      data == ListToCells(type, v)
      out == SDDS_SetArray(ds, name, type, CellsOf(data), dimension)
      res == Res(out.ds, RetLong(out.r, AnyErr(data)), {"arraydef"}, out.nerr)
  IN IF ~lk.ok THEN Res(ds, RetNULL(FALSE), {}, 0)
     ELSE IF ~byName /\ number <= lk.index THEN Res(ds, RetNULL(FALSE), held, 0)
     ELSE IF ~byName /\ lk.index < 0
     THEN Undefined(Res(ds, RetNULL(FALSE), held, 1))
     ELSE IF arraydef.null THEN Res(ds, RetNULL(FALSE), held, 1)
     ELSE IF ~ShapeAccepted(dimensions, dim)
     THEN Res(ds, RetNULL(FALSE), held \cup {"arraydef"}, 0)
     ELSE IF badDim # {}
     THEN Res(ds, RetNULL(FALSE), held \cup {"arraydef", "dimension"}, 0)
     ELSE IF AnyDeref(data) \/ out.overread THEN Undefined(res)
     ELSE res

\* the name list, the range test of the index, and the name it selects
NameAt(names, indexOrName, lk) ==
  IF lk.ok /\ lk.index >= 0 /\ lk.index < Len(names)
  THEN CStr(names[lk.index + 1]) ELSE NullStr

PyList(type, cells) == [j \in 1..Len(cells) |-> CellToPy(type, cells[j])]
\* PyList_SetItem(v, i, NULL): the item stays empty and the error stays set
AnyNULL(v) == \E j \in 1..Len(v) : v[j].k = "NULL"
ListDeref(type, cells) == \E j \in 1..Len(cells) : CellDeref(type, cells[j])

GetColumnOn(ds, indexOrName) ==
  LET lk == IndexOrName(ds.columns, indexOrName)
      data == SDDS_GetColumnNames(ds)
      name == NameAt(data, indexOrName, lk)
      rows == SDDS_RowCount(ds)
      originalType == SDDS_GetColumnType(ds, lk.index)
      columnValue == SDDS_GetColumn(ds, name)
      res == Res(ds, RetList(PyList(originalType, columnValue.cells),
                              AnyNULL(PyList(originalType, columnValue.cells))), {}, 0)
  IN IF ~lk.ok THEN Res(ds, RetNULL(FALSE), {}, 0)
     ELSE IF name.null THEN Res(ds, RetNULL(FALSE), {"names"}, 0)
     ELSE IF rows < 0 THEN Res(ds, RetNone, {"names"}, 0)
     ELSE IF columnValue.null THEN Res(ds, RetNULL(FALSE), {}, 1)
     ELSE IF ListDeref(originalType, columnValue.cells) THEN Undefined(res)
     ELSE res

\* originalType = arrayValue->definition->type comes before the test of
\* arrayValue
GetArrayOn(ds, indexOrName) ==
  LET lk == IndexOrName(ds.arrays, indexOrName)
      data == SDDS_GetArrayNames(ds)
      name == NameAt(data, indexOrName, lk)
      arrayValue == SDDS_GetArray(ds, name)
      originalType == arrayValue.type
      res == Res(ds, RetList(PyList(originalType, arrayValue.data),
                              AnyNULL(PyList(originalType, arrayValue.data))), {}, 0)
  IN IF ~lk.ok THEN Res(ds, RetNULL(FALSE), {}, 0)
     ELSE IF name.null THEN Res(ds, RetNULL(FALSE), {"names"}, 0)
     ELSE IF arrayValue.null THEN Undefined(Res(ds, RetNULL(FALSE), {}, 1))
     ELSE IF ListDeref(originalType, arrayValue.data) THEN Undefined(res)
     ELSE res

GetArrayDimensionsOn(ds, indexOrName) ==
  LET lk == IndexOrName(ds.arrays, indexOrName)
      data == SDDS_GetArrayNames(ds)
      name == NameAt(data, indexOrName, lk)
      arrayValue == SDDS_GetArray(ds, name)
      v == [q \in 1..arrayValue.dimensions |-> PyLong(arrayValue.dimension[q])]
  IN IF ~lk.ok THEN Res(ds, RetNULL(FALSE), {}, 0)
     ELSE IF name.null THEN Res(ds, RetNULL(FALSE), {"names"}, 0)
     ELSE IF arrayValue.null THEN Res(ds, RetNULL(FALSE), {}, 1)
     ELSE Res(ds, RetList(v, FALSE), {}, 0)

GetParameterOn(ds, indexOrName) ==
  LET lk == IndexOrName(ds.parameters, indexOrName)
      data == SDDS_GetParameterNames(ds)
      name == NameAt(data, indexOrName, lk)
      parameterValue == SDDS_GetParameter(ds, name)
      originalType == SDDS_GetParameterType(ds, lk.index)
      res == Res(ds, RetObj(CellToPy(originalType, parameterValue.cell),
                             CellToPy(originalType, parameterValue.cell).k = "NULL"), {}, 0)
  IN IF ~lk.ok THEN Res(ds, RetNULL(FALSE), {}, 0)
     ELSE IF name.null THEN Res(ds, RetNULL(FALSE), {"names"}, 0)
     ELSE IF parameterValue.null THEN Res(ds, RetNULL(FALSE), {}, 1)
     ELSE IF CellDeref(originalType, parameterValue.cell) THEN Undefined(res)
     ELSE res

----------------------------------------------------------------------------
(* The handlers as steps: the call on dataset_f[fileIndex], stored back.     *)

Handle(op, fileIndex, arg, res) ==
  LET call == Call(op, fileIndex, arg) IN
  /\ ~crashed
  /\ \/ InRange(fileIndex) /\ Finish(fileIndex, call, res)
     \/ Wild(fileIndex, call, SomeInt \cup {RetNULL(FALSE)})

sddsdata_DefineParameter(fileIndex, name, symbol, units, description, format_string, type, fixed_value) ==
  Handle("DefineParameter", fileIndex, <<name, symbol, type, fixed_value>>,
         DefineParameterOn(dataset_f[fileIndex], name, symbol, units,
                           description, format_string, type, fixed_value))

sddsdata_DefineColumn(fileIndex, name, symbol, units, description, format_string, type, field_length) ==
  Handle("DefineColumn", fileIndex, <<name, symbol, type>>,
         DefineColumnOn(dataset_f[fileIndex], name, symbol, units, description,
                        format_string, type, field_length))

sddsdata_DefineArray(fileIndex, name, symbol, units, description, format_string, group_name, type, field_length, dimensions) ==
  Handle("DefineArray", fileIndex, <<name, symbol, type, dimensions>>,
         DefineArrayOn(dataset_f[fileIndex], name, symbol, units, description,
                       format_string, group_name, type, field_length, dimensions))

sddsdata_StartPage(fileIndex, expected_n_rows) ==
  Handle("StartPage", fileIndex, <<expected_n_rows>>,
         StartPageOn(dataset_f[fileIndex], expected_n_rows))

sddsdata_SetParameter(fileIndex, indexOrName, v) ==
  Handle("SetParameter", fileIndex, <<indexOrName, v>>,
         SetParameterOn(dataset_f[fileIndex], indexOrName, v))

sddsdata_SetArray(fileIndex, indexOrName, v, dim) ==
  Handle("SetArray", fileIndex, <<indexOrName, v, dim>>,
         SetArrayOn(dataset_f[fileIndex], indexOrName, v, dim))

sddsdata_SetColumn(fileIndex, indexOrName, v) ==
  Handle("SetColumn", fileIndex, <<indexOrName, v>>,
         SetColumnOn(dataset_f[fileIndex], indexOrName, v))

sddsdata_SetRowValues(fileIndex, row, v) ==
  Handle("SetRowValues", fileIndex, <<row, v>>,
         SetRowValuesOn(dataset_f[fileIndex], row, v))

sddsdata_GetColumn(fileIndex, indexOrName) ==
  Handle("GetColumn", fileIndex, <<indexOrName>>,
         GetColumnOn(dataset_f[fileIndex], indexOrName))

sddsdata_GetArray(fileIndex, indexOrName) ==
  Handle("GetArray", fileIndex, <<indexOrName>>,
         GetArrayOn(dataset_f[fileIndex], indexOrName))

sddsdata_GetArrayDimensions(fileIndex, indexOrName) ==
  Handle("GetArrayDimensions", fileIndex, <<indexOrName>>,
         GetArrayDimensionsOn(dataset_f[fileIndex], indexOrName))

sddsdata_GetParameter(fileIndex, indexOrName) ==
  Handle("GetParameter", fileIndex, <<indexOrName>>,
         GetParameterOn(dataset_f[fileIndex], indexOrName))

----------------------------------------------------------------------------
(* Defining a schema: one output session on slot 0 and the three define     *)
(* calls, with fixed values of every kind the dispatch tells apart.         *)

DefineNames == {<<"p">>, <<>>}
DefineSymbols == {<<>>, <<"s">>}
DefineTypes == {"SDDS_LONG", "SDDS_DOUBLE"}
FixedValues == {PyStr(<<>>), PyStr(<<"7">>), PyLong(12), PyLong(0 - 3),
                PyFloat(25000000), PyNone, PyComplex}

NextDefine ==
  \/ sddsdata_InitializeOutput(0, 1, <<>>, <<>>, "out")
  \/ \E name \in DefineNames, symbol \in DefineSymbols, type \in DefineTypes,
        fixed_value \in FixedValues :
       sddsdata_DefineParameter(0, name, symbol, <<>>, <<>>, <<>>, type, fixed_value)
  \/ \E type \in DefineTypes :
       sddsdata_DefineColumn(0, <<"A">>, <<>>, <<>>, <<>>, <<>>, type, 0)
  \/ \E type \in DefineTypes :
       sddsdata_DefineArray(0, <<"a">>, <<>>, <<>>, <<>>, <<>>, <<>>, type, 0, 1)
  \/ sddsdata_Terminate(0)

SpecDefine == Init /\ [][NextDefine]_vars

----------------------------------------------------------------------------
(* Claims about define-parameter.                                           *)

\* what the engine accepts: an open session, a name not empty and not taken
DefineAccepted ==
  /\ dataset_f[0].open # "none"
  /\ Len(last'.arg[1]) > 0
  /\ \A j \in 1..Len(dataset_f[0].parameters) :
       dataset_f[0].parameters[j].name # last'.arg[1]

\* the fixed value each of the supplied values must end up as
ExpectedFixedValue(o) ==
  CASE o = PyStr(<<>>) -> NullStr
    [] o = PyStr(<<"7">>) -> CStr(<<"7">>)
    [] o = PyLong(12) -> CStr(<<"1", "2">>)
    [] o = PyLong(0 - 3) -> CStr(<<"-", "3">>)
    [] o = PyFloat(25000000) ->
         CStr(<<"1", ".", "2", "5", "0", "0", "0", "0", "0", "0", "0", "0",
                "0", "0", "0", "0", "0", "e", "+", "0", "0">>)
    [] OTHER -> NullStr

\* the call defined one more parameter, with the expected fixed value
DefinedAsExpected ==
  LET old == dataset_f[0].parameters
      new == dataset_f'[0].parameters
  IN /\ ret' = RetLong(Len(old), FALSE)
     /\ Len(new) = Len(old) + 1
     /\ SubSeq(new, 1, Len(old)) = old
     /\ new[Len(new)].name = last'.arg[1]
     /\ new[Len(new)].type = last'.arg[3]
     /\ new[Len(new)].fixed_value = ExpectedFixedValue(last'.arg[4])

DefineRefused ==
  /\ ret' = RetLong(0 - 1, FALSE)
  /\ dataset_f'[0].parameters = dataset_f[0].parameters

----------------------------------------------------------------------------
(* Setting and getting values: slot 0 holds an output session whose schema  *)
(* has a parameter p, a column A and a one-dimensional array a of one tag,  *)
(* and an int32 column B.                                                   *)

Opened == (CHOOSE out \in SDDS_InitializeOutput(ZeroDataset, 1, NullStr, NullStr, "out") : TRUE).ds

SchemaOf(type) ==
  LET d1 == SDDS_DefineParameter(Opened, CStr(<<"p">>), NullStr, NullStr,
                                 NullStr, NullStr, type, NullStr).ds
      d2 == SDDS_DefineColumn(d1, CStr(<<"A">>), NullStr, NullStr, NullStr,
                              NullStr, type, 0).ds
      d3 == SDDS_DefineColumn(d2, CStr(<<"B">>), NullStr, NullStr, NullStr,
                              NullStr, "SDDS_LONG", 0).ds
  IN SDDS_DefineArray(d3, CStr(<<"a">>), NullStr, NullStr, NullStr, NullStr,
                      type, 0, 1, NullStr).ds

InitMarshal ==
  /\ nameValidityFlags = 0
  /\ \E type \in Tags :
       dataset_f = [i \in Slots |-> IF i = 0 THEN SchemaOf(type) ELSE ZeroDataset]
  /\ outside = {}
  /\ n_errors = 0
  /\ ret = RetNone
  /\ last = Call("none", 0, <<>>)
  /\ leaked = {}
  /\ crashed = FALSE

\* the values handed to the setters: an int, a float and a text
Objects == {PyLong(5), PyFloat(52), PyStr(<<"x">>)}
Lists == {<<PyLong(5), PyLong(5)>>, <<PyLong(5), PyStr(<<"x">>)>>,
          <<PyStr(<<"x">>), PyLong(5)>>, <<PyFloat(52), PyFloat(52)>>,
          <<PyStr(<<"x">>), PyStr(<<"x">>)>>, <<PyLong(5)>>}
Shapes == {<<PyLong(1)>>, <<PyLong(2)>>, <<PyLong(2), PyLong(1)>>, <<PyNone>>}
ParameterRefs == {PyStr(<<"p">>), PyLong(0), PyLong(2), PyNone}
ColumnRefs == {PyStr(<<"A">>), PyLong(0), PyLong(2), PyNone}
ArrayRefs == {PyStr(<<"a">>), PyLong(0), PyLong(2), PyNone}
RowLists == {<<PyStr(<<"A">>), o, PyStr(<<"B">>), PyLong(7)>> : o \in Objects}
              \cup {<<PyStr(<<"X">>), PyLong(5), PyStr(<<"B">>), PyLong(7)>>}
Rows == {0, MaxRows}

\* parameters
NextParameter ==
  \/ sddsdata_StartPage(0, MaxRows)
  \/ \E indexOrName \in ParameterRefs, v \in Objects :
       sddsdata_SetParameter(0, indexOrName, v)
  \/ \E indexOrName \in ParameterRefs : sddsdata_GetParameter(0, indexOrName)

SpecParameter == InitMarshal /\ [][NextParameter]_vars

\* columns
NextColumn ==
  \/ sddsdata_StartPage(0, MaxRows)
  \/ \E indexOrName \in ColumnRefs, v \in Lists :
       sddsdata_SetColumn(0, indexOrName, v)
  \/ \E row \in Rows, v \in RowLists : sddsdata_SetRowValues(0, row, v)
  \/ \E indexOrName \in ColumnRefs : sddsdata_GetColumn(0, indexOrName)

SpecColumn == InitMarshal /\ [][NextColumn]_vars

\* arrays
NextArray ==
  \/ sddsdata_StartPage(0, MaxRows)
  \/ \E indexOrName \in ArrayRefs, v \in Lists, dim \in Shapes :
       sddsdata_SetArray(0, indexOrName, v, dim)
  \/ \E indexOrName \in ArrayRefs : sddsdata_GetArray(0, indexOrName)
  \/ \E indexOrName \in ArrayRefs : sddsdata_GetArrayDimensions(0, indexOrName)

SpecArray == InitMarshal /\ [][NextArray]_vars

----------------------------------------------------------------------------
(* Claims about setting and getting values.                                 *)

IntegerTags == {"SDDS_SHORT", "SDDS_USHORT", "SDDS_LONG", "SDDS_ULONG",
                "SDDS_LONG64", "SDDS_ULONG64"}
FloatTags == {"SDDS_FLOAT", "SDDS_DOUBLE"}

\* the tag of p, A and a in the schema of slot 0
FieldTag == dataset_f[0].parameters[1].type

\* a value of the tag's own kind and range
ValueOfTag(type, o) ==
  CASE type \in IntegerTags -> o.k = "int" /\ o.i >= 0 /\ o.i < ShortHalf
    [] type \in FloatTags -> o.k = "float"
    [] type = "SDDS_CHARACTER" -> o.k = "str" /\ Len(o.s) = 1
    [] OTHER -> o.k = "str"

\* a value no conversion to the tag accepts
Unconvertible(type, o) ==
  CASE type \in IntegerTags -> o.k # "int"
    [] type \in FloatTags -> o.k \notin {"int", "float"}
    [] OTHER -> o.k # "str"

\* the value a get must return for a value that was set
RoundTrip(type, o) ==
  IF type = "SDDS_FLOAT" THEN PyFloat(SixDigitsOfDouble(o.i)) ELSE o

\* C5: a value of the tag set on the parameter and read back by the next call
\* is the value that was set; for float32 it is the value rounded to six
\* digits after the point.
C5_RoundTrip ==
  [][(/\ last.op = "SetParameter" /\ last.arg[1] \in {PyStr(<<"p">>), PyLong(0)}
      /\ ValueOfTag(FieldTag, last.arg[2])
      /\ ret = RetLong(1, FALSE)
      /\ last'.op = "GetParameter"
      /\ last'.arg[1] \in {PyStr(<<"p">>), PyLong(0)})
     => (~crashed' /\ ret' = RetObj(RoundTrip(FieldTag, last.arg[2]), FALSE))]_vars

\* C7: set-column with an element that cannot be converted to the tag of the
\* column fails and leaves the column data and the row count as they were.
C7_NoPartialWrite ==
  [][(/\ last'.op = "SetColumn"
      /\ last'.arg[1] \in {PyStr(<<"A">>), PyLong(0)}
      /\ \E j \in 1..Len(last'.arg[2]) : Unconvertible(FieldTag, last'.arg[2][j]))
     => (/\ ~crashed'
         /\ Raises(ret')
         /\ dataset_f'[0].data = dataset_f[0].data
         /\ dataset_f'[0].n_rows = dataset_f[0].n_rows)]_vars

\* C8: set-array with a shape whose length is not the declared number of
\* dimensions returns NULL and leaves the dataset, the array's elements and
\* shape included, as it was.
C8_ShapeMismatchRejected ==
  [][(/\ last'.op = "SetArray"
      /\ last'.arg[1] \in {PyStr(<<"a">>), PyLong(0)}
      /\ Len(last'.arg[3]) # dataset_f[0].arrays[1].dimensions)
     => (/\ ~crashed'
         /\ ret' = RetNULL(FALSE)
         /\ dataset_f' = dataset_f)]_vars

\* C8 witness: the array holds two elements, and a set with a two-entry shape
\* on this one-dimensional array has just been refused
C8_Witness ==
  /\ last.op = "SetArray" /\ last.arg[1] = PyStr(<<"a">>)
  /\ last.arg[3] = <<PyLong(2), PyLong(1)>>
  /\ ret = RetNULL(FALSE)
  /\ dataset_f[0].paged
  /\ dataset_f[0].array[1].elements = 2
  /\ dataset_f[0].array[1].dimension = <<2>>

\* the pairs of a set-row-values list
PairCount(v) == Len(v) \div 2
PairColumn(ds, v, j) == FieldIndex(ds.columns, CStr(v[2 * j - 1].s))
PairFails(ds, v, j) ==
  \/ PairColumn(ds, v, j) < 0
  \/ Unconvertible(ds.columns[PairColumn(ds, v, j) + 1].type, v[2 * j])

\* C9: set-row-values applies the pairs in order and returns 1 when all were
\* applied; when the lookup or the conversion of a pair fails the call fails
\* and the cells of that pair and of the later pairs are as they were.
C9_StopsAtFailure ==
  [][(/\ last'.op = "SetRowValues"
      /\ dataset_f[0].paged
      /\ last'.arg[1] < dataset_f[0].n_rows_allocated)
     => LET ds == dataset_f[0]
            v == last'.arg[2]
            row == last'.arg[1]
            failing == {j \in 1..PairCount(v) : PairFails(ds, v, j)}
        IN IF failing = {}
           THEN /\ ret' = RetLong(1, FALSE)
                /\ \A j \in 1..PairCount(v) :
                     dataset_f'[0].data[PairColumn(ds, v, j) + 1][row + 1] =
                       ElementToCell(ds.columns[PairColumn(ds, v, j) + 1].type,
                                     v[2 * j]).cell
           ELSE /\ ~crashed'
                /\ Raises(ret')
                /\ \A j \in 1..PairCount(v) :
                     (PairColumn(ds, v, j) >= 0 /\ \E k \in failing : k <= j) =>
                       dataset_f'[0].data[PairColumn(ds, v, j) + 1][row + 1] =
                         ds.data[PairColumn(ds, v, j) + 1][row + 1]]_vars

MarshallingCalls == {"SetArray", "SetColumn", "GetColumn", "GetArray",
                     "GetArrayDimensions", "GetParameter"}

\* C10: when a marshalling call has returned, no buffer it allocated is left
\* unreleased.
C10_BuffersReleased == last.op \in MarshallingCalls => leaked = {}

----------------------------------------------------------------------------
(* Claims about the unsigned tags.                                          *)

\* integer parameters set from ints inside and outside the range of the tag
Ints == {PyLong(5), PyLong(0 - 2), PyLong(70000)}

InitInteger ==
  /\ nameValidityFlags = 0
  /\ \E type \in IntegerTags :
       dataset_f = [i \in Slots |-> IF i = 0 THEN SchemaOf(type) ELSE ZeroDataset]
  /\ outside = {}
  /\ n_errors = 0
  /\ ret = RetNone
  /\ last = Call("none", 0, <<>>)
  /\ leaked = {}
  /\ crashed = FALSE

NextInteger ==
  \/ sddsdata_StartPage(0, MaxRows)
  \/ \E indexOrName \in ParameterRefs, v \in Ints :
       sddsdata_SetParameter(0, indexOrName, v)
  \/ \E indexOrName \in ParameterRefs : sddsdata_GetParameter(0, indexOrName)

SpecInteger == InitInteger /\ [][NextInteger]_vars

UnsignedTags == {"SDDS_USHORT", "SDDS_ULONG", "SDDS_ULONG64"}

\* n reduced modulo 2^w, as the cell of the tag holds it: for the 32- and
\* 64-bit tags the pattern of n mod 2^w read as a signed integer is n itself
ReducedToWidth(type, n) == IF type = "SDDS_USHORT" THEN n % ShortSpan ELSE n

\* C11: a set of any integer on a parameter of an unsigned tag succeeds and
\* stores the integer reduced modulo 2^w.
C11_UnsignedMasks ==
  [][(/\ last'.op = "SetParameter"
      /\ last'.arg[1] \in {PyStr(<<"p">>), PyLong(0)}
      /\ last'.arg[2].k = "int"
      /\ FieldTag \in UnsignedTags
      /\ dataset_f[0].paged)
     => (/\ ret' = RetLong(1, FALSE)
         /\ dataset_f'[0].parameter[1] =
              IntCell(ReducedToWidth(FieldTag, last'.arg[2].i)))]_vars

----------------------------------------------------------------------------
(* The error queue and the argument tuples of the calls.                    *)

\* the engine's queue, by its length
SDDS_SetError(n) == n + 1
SDDS_ClearErrors(n) == 0
SDDS_NumberOfErrors(n) == n

\* PyArg_ParseTuple(args, format): as many items as the format has units, an
\* int for "l", a str for "s", any object for "O"
PyArg_ParseTuple(args, format) ==
  /\ Len(args) = Len(format)
  /\ \A j \in 1..Len(format) :
       CASE format[j] = "l" -> PyLong_Check(args[j])
         [] format[j] = "s" -> PyString_Check(args[j])
         [] OTHER -> TRUE

\* the format each handler parses its arguments with
Format(op) ==
  CASE op \in {"SetColumnMajorOrder", "SetRowMajorOrder", "EnableFSync",
               "DisableFSync"} -> <<"l">>
    [] op = "InitializeInput" -> <<"l", "s">>
    [] op = "DefineParameter" -> <<"l", "s", "s", "s", "s", "s", "l", "O">>
    [] op = "SetParameter" -> <<"l", "O", "O">>
    [] OTHER -> <<"s">>

\* (mutant) the parse failure is returned with the error indicator cleared
ParseFailure_ErrorCleared(op) ==
  CASE op \in {"SetColumnMajorOrder", "SetRowMajorOrder", "EnableFSync",
               "DisableFSync"} -> RetNone
    [] op = "DefineParameter" -> RetLong(0 - 1, FALSE)
    [] OTHER -> RetNULL(FALSE)

\* what each handler returns when PyArg_ParseTuple fails; the TypeError of
\* the parse is pending at the return
ParseFailure(op) ==
  CASE op \in {"SetColumnMajorOrder", "SetRowMajorOrder", "EnableFSync",
               "DisableFSync"} -> [RetNone EXCEPT !.exc = TRUE]
    [] op = "DefineParameter" -> RetLong(0 - 1, TRUE)
    [] OTHER -> RetNULL(TRUE)

\* a handler called with a tuple its format rejects returns at once
Malformed(op, args) ==
  /\ ~crashed
  /\ ~PyArg_ParseTuple(args, Format(op))
  /\ Done(Call("Malformed", 0, <<op, args>>), ParseFailure(op), {})
  /\ UNCHANGED <<dataset_f, outside, n_errors, crashed>>

sddsdata_NumberOfErrors ==
  /\ ~crashed
  /\ Done(Call("NumberOfErrors", 0, <<>>),
          RetLong(SDDS_NumberOfErrors(n_errors), FALSE), {})
  /\ UNCHANGED <<dataset_f, outside, n_errors, crashed>>

\* (mutant) the queue is left as it is
ClearedQueue_Kept(n) == n

\* SDDS_ClearErrors(); return Py_None
ClearedQueue(n) == SDDS_ClearErrors(n)

sddsdata_ClearErrors ==
  /\ ~crashed
  /\ n_errors' = ClearedQueue(n_errors)
  /\ Done(Call("ClearErrors", 0, <<>>), RetNone, {})
  /\ UNCHANGED <<dataset_f, outside, crashed>>

sddsdata_SetError(error_text) ==
  /\ ~crashed
  /\ n_errors' = SDDS_SetError(n_errors)
  /\ n_errors' <= MaxErrors
  /\ Done(Call("SetError", 0, <<error_text>>), RetNone, {})
  /\ UNCHANGED <<dataset_f, outside, crashed>>

ParsingOps == {"SetColumnMajorOrder", "InitializeInput", "DefineParameter",
               "SetParameter", "SetError"}

ArgTuples == {<<>>, <<PyLong(0)>>, <<PyStr(<<"x">>)>>, <<PyFloat(0)>>,
              <<PyLong(0), PyLong(1)>>, <<PyLong(0), PyStr(<<"x">>)>>,
              <<PyLong(0), PyStr(<<"p">>), PyLong(5)>>}

NextErrors ==
  \/ \E fileIndex \in Slots, filename \in {"missing", "data"} :
       sddsdata_InitializeInput(fileIndex, filename)
  \/ \E fileIndex \in Slots : sddsdata_Terminate(fileIndex)
  \/ \E fileIndex \in Slots : sddsdata_SetColumnMajorOrder(fileIndex)
  \/ \E error_text \in Descriptions : sddsdata_SetError(error_text)
  \/ sddsdata_ClearErrors
  \/ sddsdata_NumberOfErrors
  \/ \E op \in ParsingOps, args \in ArgTuples : Malformed(op, args)

SpecErrors == Init /\ [][NextErrors]_vars

\* C12: a call whose argument tuple does not fit the handler's format returns
\* the handler's parse-failure value with the parse error pending, queues no
\* error and changes no slot.
C12_MalformedCallIsInert ==
  [][last'.op = "Malformed" =>
       /\ ~PyArg_ParseTuple(last'.arg[2], Format(last'.arg[1]))
       /\ ret' = ParseFailure(last'.arg[1]) /\ Raises(ret')
       /\ n_errors' = n_errors
       /\ dataset_f' = dataset_f]_vars

\* C12 witness: a define call with two arguments on an open slot, with errors
\* in the queue
C12_Witness ==
  /\ last.op = "Malformed" /\ last.arg[1] = "DefineParameter"
  /\ Len(last.arg[2]) = 2
  /\ ret = RetLong(0 - 1, TRUE)
  /\ dataset_f[0].open = "input" /\ n_errors = MaxErrors

\* C13: set-error lengthens the queue by exactly one, the queue is empty
\* after clear-errors, and number-of-errors returns the length and leaves it.
C13_QueueLength ==
  [][/\ last'.op = "SetError" => n_errors' = n_errors + 1
     /\ last'.op = "ClearErrors" => n_errors' = 0
     /\ last'.op = "NumberOfErrors" =>
          (ret' = RetLong(n_errors, FALSE) /\ n_errors' = n_errors)]_vars

\* C13 witness: two entries pushed by set-error with sessions open on both
\* slots
C13_Witness ==
  /\ last.op = "SetError" /\ n_errors = MaxErrors
  /\ dataset_f[0].open = "input" /\ dataset_f[1].open = "input"

\* C14: open-input on a path that does not exist returns 0, leaves the slot
\* unopened and lengthens the error queue by exactly one.
C14_MissingInputFile ==
  [][(last'.op = "InitializeInput" /\ ~FS(last'.arg[1]).exists) =>
       /\ ret' = RetLong(0, FALSE)
       /\ dataset_f'[last'.fileIndex].open = "none"
       /\ n_errors' = n_errors + 1]_vars

\* C14 witness: the open failed while a session is open on the other slot
C14_Witness ==
  /\ last.op = "InitializeInput" /\ last.arg[1] = "missing"
  /\ ret = RetLong(0, FALSE) /\ n_errors = 1
  /\ dataset_f[last.fileIndex].open = "none"
  /\ dataset_f[1 - last.fileIndex].open = "input"

----------------------------------------------------------------------------
(* Claims about the names of a schema.                                      *)

NameTaken(defs, name) == \E j \in 1..Len(defs) : defs[j].name = name

UniqueNames(defs) ==
  \A j, q \in 1..Len(defs) : defs[j].name = defs[q].name => j = q

\* the field list the define call of the name adds to
DefinedBy(ds, op) ==
  CASE op = "DefineParameter" -> ds.parameters
    [] op = "DefineColumn" -> ds.columns
    [] OTHER -> ds.arrays

DefineOps == {"DefineParameter", "DefineColumn", "DefineArray"}

\* C15: a define call with a name its variant already has returns -1 and
\* leaves the three field lists as they were; the names of each variant stay
\* pairwise different.
C15_DuplicateNameRefused ==
  /\ [][(last'.op \in DefineOps
          /\ NameTaken(DefinedBy(dataset_f[0], last'.op), last'.arg[1])) =>
          /\ ret' = RetLong(0 - 1, FALSE)
          /\ dataset_f'[0].parameters = dataset_f[0].parameters
          /\ dataset_f'[0].columns = dataset_f[0].columns
          /\ dataset_f'[0].arrays = dataset_f[0].arrays]_vars
  /\ [](/\ UniqueNames(dataset_f[0].parameters)
        /\ UniqueNames(dataset_f[0].columns)
        /\ UniqueNames(dataset_f[0].arrays))

\* C15 witness: column A was defined again with another type and refused
C15_Witness ==
  /\ last.op = "DefineColumn" /\ ret = RetLong(0 - 1, FALSE)
  /\ Len(dataset_f[0].columns) = 1
  /\ dataset_f[0].columns[1].name = last.arg[1]
  /\ dataset_f[0].columns[1].type # last.arg[3]
  /\ Len(dataset_f[0].parameters) = 1 /\ Len(dataset_f[0].arrays) = 1

----------------------------------------------------------------------------
(* Copying a layout and reading a page sparsely.                            *)

\* the engine replaces the layout of an open target by that of an open
\* source
SDDS_CopyLayout(SDDS_target, SDDS_source) ==
  IF SDDS_target.open # "none" /\ SDDS_source.open # "none"
  THEN Outcome(1, [SDDS_target EXCEPT !.parameters = SDDS_source.parameters,
                                      !.columns = SDDS_source.columns,
                                      !.arrays = SDDS_source.arrays,
                                      !.description = SDDS_source.description,
                                      !.contents = SDDS_source.contents], 0)
  ELSE Outcome(0, SDDS_target, 1)

\* (mutant) the two datasets are handed over in the other order
CopyLayoutOn_Swapped(target, source) == SDDS_CopyLayout(source, target)

\* SDDS_CopyLayout(&dataset_f[fileIndexTarget], &dataset_f[fileIndexSource])
CopyLayoutOn(target, source) == SDDS_CopyLayout(target, source)

sddsdata_CopyLayout(fileIndexTarget, fileIndexSource) ==
  LET call == Call("CopyLayout", fileIndexTarget, <<fileIndexSource>>)
      out == CopyLayoutOn(dataset_f[fileIndexTarget], dataset_f[fileIndexSource])
  IN /\ ~crashed
     /\ \/ /\ InRange(fileIndexTarget) /\ InRange(fileIndexSource)
           /\ Store(fileIndexTarget, out)
           /\ Done(call, RetLong(out.r, FALSE), {})
        \/ Wild(fileIndexTarget, call, SomeInt)
        \/ Wild(fileIndexSource, call, SomeInt)

\* the rows the engine keeps while it walks the rows of the page from row j:
\* it skips sparse_offset rows, then keeps one row in sparse_interval
RECURSIVE SparseRows(_, _, _, _)
SparseRows(j, rows, sparse_interval, sparse_offset) ==
  IF j >= rows THEN <<>>
  ELSE IF j < sparse_offset
  THEN SparseRows(j + 1, rows, sparse_interval, sparse_offset)
  ELSE <<RowValue(j)>> \o
       SparseRows(j + sparse_interval, rows, sparse_interval, sparse_offset)

\* as SDDS_ReadPage, with only the sparse rows of the page stored; an interval
\* below 1 is 1 and an offset below 0 is 0
SDDS_ReadPageSparse(ds, mode, sparse_interval, sparse_offset, sparse_statistics) ==
  LET interval == IF sparse_interval <= 0 THEN 1 ELSE sparse_interval
      offset == IF sparse_offset < 0 THEN 0 ELSE sparse_offset
  IN {IF out.r >= 1
      THEN LET kept == SparseRows(0, out.ds.n_rows, interval, offset) IN
           Outcome(out.r, [out.ds EXCEPT !.n_rows = Len(kept),
                                         !.n_rows_allocated = Len(kept),
                                         !.data = <<kept>>], out.nerr)
      ELSE out : out \in SDDS_ReadPage(ds)}

\* (mutant) the interval and the offset are handed over in the other order
ReadPageSparseOn_Swapped(ds, sparse_interval, sparse_offset) ==
  SDDS_ReadPageSparse(ds, 0, sparse_offset, sparse_interval, 0)

\* SDDS_ReadPageSparse(&dataset_f[fileIndex], 0, sparse_interval, sparse_offset, 0)
ReadPageSparseOn(ds, sparse_interval, sparse_offset) ==
  SDDS_ReadPageSparse(ds, 0, sparse_interval, sparse_offset, 0)

sddsdata_ReadPageSparse(fileIndex, sparse_interval, sparse_offset) ==
  LET call == Call("ReadPageSparse", fileIndex, <<sparse_interval, sparse_offset>>) IN
  /\ ~crashed
  /\ \/ /\ InRange(fileIndex)
        /\ \E out \in ReadPageSparseOn(dataset_f[fileIndex], sparse_interval,
                                       sparse_offset) :
             Store(fileIndex, out) /\ Done(call, RetLong(out.r, FALSE), {})
     \/ Wild(fileIndex, call, SomeInt \cup {RetLong(0 - 1, FALSE)})

----------------------------------------------------------------------------
(* Two output sessions, fields defined on either, layouts copied between    *)
(* them.                                                                   *)

ColumnNames == {<<"A">>, <<"B">>}

NextCopy ==
  \E fileIndex \in Slots :
    \/ sddsdata_InitializeOutput(fileIndex, 1, <<>>, <<>>, "out")
    \/ sddsdata_DefineParameter(fileIndex, <<"p">>, <<>>, <<>>, <<>>, <<>>,
                                "SDDS_STRING", PyNone)
    \/ \E name \in ColumnNames :
         sddsdata_DefineColumn(fileIndex, name, <<>>, <<>>, <<>>, <<>>,
                               IF name = <<"A">> THEN "SDDS_LONG" ELSE "SDDS_DOUBLE", 0)
    \/ \E fileIndexSource \in Slots : sddsdata_CopyLayout(fileIndex, fileIndexSource)
    \/ sddsdata_Terminate(fileIndex)

SpecCopy == Init /\ [][NextCopy]_vars

EmptyLayout(ds) ==
  Len(ds.parameters) = 0 /\ Len(ds.columns) = 0 /\ Len(ds.arrays) = 0

\* C16: copy-layout from an open source onto an open target with no fields
\* returns 1, makes the field lists of the target those of the source (names,
\* tags and order) and leaves the source unchanged.
C16_CopyLayoutExact ==
  [][\A t, s \in Slots :
       (/\ last'.op = "CopyLayout" /\ last'.fileIndex = t /\ last'.arg[1] = s
        /\ dataset_f[t].open # "none" /\ dataset_f[s].open # "none"
        /\ EmptyLayout(dataset_f[t])) =>
         /\ ret' = RetLong(1, FALSE)
         /\ dataset_f'[t].parameters = dataset_f[s].parameters
         /\ dataset_f'[t].columns = dataset_f[s].columns
         /\ dataset_f'[t].arrays = dataset_f[s].arrays
         /\ t # s => dataset_f'[s] = dataset_f[s]]_vars

\* C16 witness: columns B and A, defined in this order with different tags,
\* and a parameter arrived on slot 1
C16_Witness ==
  /\ last.op = "CopyLayout" /\ last.fileIndex = 1 /\ last.arg[1] = 0
  /\ ret = RetLong(1, FALSE)
  /\ Len(dataset_f[1].columns) = 2 /\ Len(dataset_f[1].parameters) = 1
  /\ dataset_f[1].columns[1].name = <<"B">>
  /\ dataset_f[1].columns[1].type # dataset_f[1].columns[2].type
  /\ dataset_f[1].columns = dataset_f[0].columns

----------------------------------------------------------------------------
(* Input sessions read page by page, whole or sparsely.                     *)

Intervals == {1, 2}
Offsets == {0, 1, FileRows}

NextSparse ==
  \/ \E filename \in FileNames : sddsdata_InitializeInput(0, filename)
  \/ sddsdata_ReadPage(0)
  \/ \E sparse_interval \in Intervals, sparse_offset \in Offsets :
       sddsdata_ReadPageSparse(0, sparse_interval, sparse_offset)
  \/ sddsdata_Terminate(0)

SpecSparse == Init /\ [][NextSparse]_vars

\* the number of rows offset, offset + interval, ... below rows
SparseCount(rows, interval, offset) ==
  IF offset >= rows THEN 0 ELSE (rows - offset + interval - 1) \div interval

----------------------------------------------------------------------------
(* Rescaling the values of a parameter or column.  The factor is a double   *)
(* with a whole value, written as that integer.                            *)

MaxScaled == 10            \* largest magnitude a value is rescaled from

NumericTags == IntegerTags \cup FloatTags

\* what has to be added to the integer of a cell to get the number it stands
\* for, in steps of the cell's scale
ScaleOrigin(type) ==
  CASE type = "SDDS_DOUBLE" -> DoubleUnit
    [] type = "SDDS_FLOAT" -> UlpsPerUnit
    [] OTHER -> 0

ScaleUnit(type) ==
  CASE type = "SDDS_DOUBLE" -> DoubleUnit
    [] type = "SDDS_FLOAT" -> UlpsPerUnit
    [] OTHER -> 1

\* *((type *)data) *= factor
TimesFactor(type, cell, factor) ==
  CASE type = "SDDS_DOUBLE" -> IntCell(factor * cell.i + (factor - 1) * DoubleUnit)
    [] type = "SDDS_FLOAT" -> IntCell(factor * cell.i + (factor - 1) * UlpsPerUnit)
    [] type = "SDDS_SHORT" -> IntCell(ToShort(factor * cell.i))
    [] type = "SDDS_USHORT" -> IntCell(ToUShort(factor * cell.i))
    [] OTHER -> IntCell(factor * cell.i)

SDDS_ApplyFactorToParameter(ds, name, factor) ==
  LET index == FieldIndex(ds.parameters, name) IN
  IF index < 0 THEN Outcome(0, ds, 0)
  ELSE IF ds.parameters[index + 1].type \notin NumericTags \/ ~ds.paged
  THEN Outcome(0, ds, 1)
  ELSE Outcome(1, [ds EXCEPT !.parameter[index + 1] =
                     TimesFactor(ds.parameters[index + 1].type, @, factor)], 0)

SDDS_ApplyFactorToColumn(ds, name, factor) ==
  LET index == FieldIndex(ds.columns, name) IN
  IF index < 0 THEN Outcome(0, ds, 0)
  ELSE IF ds.columns[index + 1].type \notin NumericTags \/ ~ds.paged
  THEN Outcome(0, ds, 1)
  ELSE Outcome(1, [ds EXCEPT !.data[index + 1] =
                     [r \in 1..Len(@) |->
                        IF r <= ds.n_rows
                        THEN TimesFactor(ds.columns[index + 1].type, @[r], factor)
                        ELSE @[r]]], 0)

\* the values of the page are small enough to be rescaled once more
InScale(type, cell) ==
  /\ cell.i <= MaxScaled * ScaleUnit(type)
  /\ cell.i >= 0 - MaxScaled * ScaleUnit(type)
  /\ type \in {"SDDS_USHORT", "SDDS_ULONG", "SDDS_ULONG64"} => cell.i >= 0

Scalable(ds) ==
  /\ \A j \in 1..Len(ds.parameter) : InScale(ds.parameters[j].type, ds.parameter[j])
  /\ \A j \in 1..Len(ds.data) : \A r \in 1..Len(ds.data[j]) :
       InScale(ds.columns[j].type, ds.data[j][r])

ApplyFactorToParameterOn(ds, name, factor) ==
  LET out == SDDS_ApplyFactorToParameter(ds, CStr(name), factor)
  IN Res(out.ds, RetLong(out.r, FALSE), {}, out.nerr)

\* (mutant) the column handler calls the engine's parameter function
ApplyFactorToColumnOn_AsParameter(ds, name, factor) ==
  LET out == SDDS_ApplyFactorToParameter(ds, CStr(name), factor)
  IN Res(out.ds, RetLong(out.r, FALSE), {}, out.nerr)

ApplyFactorToColumnOn(ds, name, factor) ==
  LET out == SDDS_ApplyFactorToColumn(ds, CStr(name), factor)
  IN Res(out.ds, RetLong(out.r, FALSE), {}, out.nerr)

sddsdata_ApplyFactorToParameter(fileIndex, name, factor) ==
  /\ InRange(fileIndex) => Scalable(dataset_f[fileIndex])
  /\ Handle("ApplyFactorToParameter", fileIndex, <<name, factor>>,
            ApplyFactorToParameterOn(dataset_f[fileIndex], name, factor))

sddsdata_ApplyFactorToColumn(fileIndex, name, factor) ==
  /\ InRange(fileIndex) => Scalable(dataset_f[fileIndex])
  /\ Handle("ApplyFactorToColumn", fileIndex, <<name, factor>>,
            ApplyFactorToColumnOn(dataset_f[fileIndex], name, factor))

Factors == {0, 2}
FactorNames == {<<"p">>, <<"A">>}
FactorLists == {<<PyLong(5), PyFloat(52)>>, <<PyStr(<<"x">>), PyStr(<<"y">>)>>}

NextFactor ==
  \/ sddsdata_StartPage(0, MaxRows)
  \/ \E v \in Objects : sddsdata_SetParameter(0, PyStr(<<"p">>), v)
  \/ \E v \in FactorLists : sddsdata_SetColumn(0, PyStr(<<"A">>), v)
  \/ \E name \in FactorNames, factor \in Factors :
       sddsdata_ApplyFactorToParameter(0, name, factor)
  \/ \E name \in FactorNames, factor \in Factors :
       sddsdata_ApplyFactorToColumn(0, name, factor)

SpecFactor == InitMarshal /\ [][NextFactor]_vars

\* the number a cell of a numeric tag stands for, in steps of its scale
Scalar(type, cell) == cell.i + ScaleOrigin(type)

\* C18: apply-factor on a field of the parameter's or column's own kind
\* returns 0 and leaves every value of the page unchanged when the tag is
\* string or character; on a numeric tag it returns 1 and every value of the
\* field is the old value times the factor.
C18_ApplyFactor ==
  [][/\ (last'.op = "ApplyFactorToParameter" /\ last'.arg[1] = <<"p">>
         /\ dataset_f[0].paged) =>
          IF FieldTag \in {"SDDS_STRING", "SDDS_CHARACTER"}
          THEN /\ ret' = RetLong(0, FALSE)
               /\ dataset_f'[0].parameter = dataset_f[0].parameter
               /\ dataset_f'[0].data = dataset_f[0].data
          ELSE /\ ret' = RetLong(1, FALSE)
               /\ Scalar(FieldTag, dataset_f'[0].parameter[1])
                    = last'.arg[2] * Scalar(FieldTag, dataset_f[0].parameter[1])
               /\ dataset_f'[0].data = dataset_f[0].data
     /\ (last'.op = "ApplyFactorToColumn" /\ last'.arg[1] = <<"A">>
         /\ dataset_f[0].paged) =>
          IF FieldTag \in {"SDDS_STRING", "SDDS_CHARACTER"}
          THEN /\ ret' = RetLong(0, FALSE)
               /\ dataset_f'[0].parameter = dataset_f[0].parameter
               /\ dataset_f'[0].data = dataset_f[0].data
          ELSE /\ ret' = RetLong(1, FALSE)
               /\ dataset_f'[0].n_rows = dataset_f[0].n_rows
               /\ \A r \in 1..dataset_f[0].n_rows :
                    Scalar(FieldTag, dataset_f'[0].data[1][r])
                      = last'.arg[2] * Scalar(FieldTag, dataset_f[0].data[1][r])
               /\ dataset_f'[0].data[2] = dataset_f[0].data[2]
               /\ dataset_f'[0].parameter = dataset_f[0].parameter]_vars

\* C18 witness: a float64 column holding 5.0 and 1.00000052 was doubled
C18_Witness ==
  /\ last.op = "ApplyFactorToColumn" /\ last.arg = <<<<"A">>, 2>>
  /\ ret = RetLong(1, FALSE)
  /\ FieldTag = "SDDS_DOUBLE"
  /\ dataset_f[0].n_rows = 2
  /\ dataset_f[0].data[1][1] = IntCell(9 * DoubleUnit)
  /\ dataset_f[0].data[1][2] = IntCell(DoubleUnit + 104)

----------------------------------------------------------------------------
(* Fields addressed by name and by index.                                   *)

AccessParameters == {PyStr(<<"p">>), PyLong(0), PyStr(<<"zz">>)}
AccessColumns == {PyStr(<<"A">>), PyStr(<<"B">>), PyLong(0), PyLong(1),
                  PyStr(<<"zz">>)}
AccessArrays == {PyStr(<<"a">>), PyLong(0), PyStr(<<"zz">>)}
AccessLists == {<<PyLong(5), PyLong(6)>>, <<PyStr(<<"x">>), PyStr(<<"y">>)>>}

NextAccess ==
  \/ sddsdata_StartPage(0, MaxRows)
  \/ \E indexOrName \in AccessParameters, v \in Objects :
       sddsdata_SetParameter(0, indexOrName, v)
  \/ \E indexOrName \in AccessColumns, v \in AccessLists :
       sddsdata_SetColumn(0, indexOrName, v)
  \/ \E indexOrName \in AccessArrays, v \in AccessLists :
       sddsdata_SetArray(0, indexOrName, v, <<PyLong(2)>>)
  \/ \E indexOrName \in AccessParameters : sddsdata_GetParameter(0, indexOrName)
  \/ \E indexOrName \in AccessColumns : sddsdata_GetColumn(0, indexOrName)
  \/ \E indexOrName \in AccessArrays : sddsdata_GetArray(0, indexOrName)

SpecAccess == InitMarshal /\ [][NextAccess]_vars

\* the field list an accessor looks its field up in
AccessedDefs(ds, op) ==
  CASE op \in {"SetParameter", "GetParameter"} -> ds.parameters
    [] op \in {"SetColumn", "GetColumn"} -> ds.columns
    [] OTHER -> ds.arrays

AccessOps == {"SetParameter", "GetParameter", "SetColumn", "GetColumn",
              "SetArray", "GetArray"}

\* the call of the step, made on the same dataset with another reference to
\* the field
SameCallWith(indexOrName) ==
  LET ds == dataset_f[0]
      arg == last'.arg
  IN CASE last'.op = "SetParameter" -> SetParameterOn(ds, indexOrName, arg[2])
       [] last'.op = "GetParameter" -> GetParameterOn(ds, indexOrName)
       [] last'.op = "SetColumn" -> SetColumnOn(ds, indexOrName, arg[2])
       [] last'.op = "GetColumn" -> GetColumnOn(ds, indexOrName)
       [] last'.op = "SetArray" -> SetArrayOn(ds, indexOrName, arg[2], arg[3])
       [] OTHER -> GetArrayOn(ds, indexOrName)

\* the step ended as the call res: it died where res is undefined, or it
\* returned what res returns and left the dataset and the queue as res does
EndedAs(res) ==
  \/ res.deref /\ crashed'
  \/ /\ ~crashed'
     /\ dataset_f'[0] = res.ds
     /\ ret' = res.r
     /\ n_errors' = n_errors + res.nerr

\* C19: a get or set that names a defined field ends as the same call made
\* with the index of the name; a get or set that names no field returns the
\* NULL pointer and changes nothing.
C19_NameAndIndexAgree ==
  [][(last'.op \in AccessOps /\ PyString_Check(last'.arg[1])) =>
       LET defs == AccessedDefs(dataset_f[0], last'.op)
           k == FieldIndex(defs, CStr(last'.arg[1].s))
       IN IF k >= 0
          THEN EndedAs(SameCallWith(PyLong(k)))
          ELSE /\ ret'.k = "NULL" /\ ~crashed'
               /\ dataset_f' = dataset_f]_vars

\* C19 witness: column B, the second column, was set by its name
C19_Witness ==
  /\ last.op = "SetColumn" /\ last.arg[1] = PyStr(<<"B">>)
  /\ ret = RetLong(1, FALSE)
  /\ dataset_f[0].data[2] = <<IntCell(5), IntCell(6)>>
  /\ FieldTag = "SDDS_DOUBLE"

----------------------------------------------------------------------------
(* Optional attributes: sessions opened and fields defined with empty and   *)
(* non-empty texts, and column definitions read back.                       *)

\* a copy of the definition, or NULL
SDDS_GetColumnDefinition(ds, name) ==
  LET index == FieldIndex(ds.columns, name) IN
  IF index < 0 THEN [null |-> TRUE, def |-> <<>>]
  ELSE [null |-> FALSE, def |-> ds.columns[index + 1]]

\* PyString_FromString(pardef->x) for an attribute that is there, else
\* PyString_FromString("")
AttributeText(c) == IF ~c.null THEN PyStr(c.s) ELSE PyStr(<<>>)

\* PyLong_FromLong(pardef->type): the int of the tag, written by its name
PyType(type) == [k |-> "int", i |-> 0, s |-> <<type>>]

GetColumnDefinitionOn(ds, name) ==
  LET pardef == SDDS_GetColumnDefinition(ds, CStr(name)) IN
  IF pardef.null THEN Res(ds, RetNULL(FALSE), {}, 1)
  ELSE Res(ds, RetList(<<AttributeText(pardef.def.symbol),
                         AttributeText(pardef.def.units),
                         AttributeText(pardef.def.description),
                         AttributeText(pardef.def.format_string),
                         PyType(pardef.def.type),
                         PyLong(pardef.def.field_length)>>, FALSE), {}, 0)

sddsdata_GetColumnDefinition(fileIndex, name) ==
  Handle("GetColumnDefinition", fileIndex, <<name>>,
         GetColumnDefinitionOn(dataset_f[fileIndex], name))

Texts == {<<>>, <<"t">>}

NextAttributes ==
  \/ \E description \in Texts, contents \in Texts :
       sddsdata_InitializeOutput(0, 1, description, contents, "out")
  \/ \E symbol \in Texts, fixed_value \in {PyStr(t) : t \in Texts} :
       sddsdata_DefineParameter(0, <<"p">>, symbol, <<>>, <<"t">>, <<>>,
                                "SDDS_STRING", fixed_value)
  \/ \E symbol \in Texts, units \in Texts, text \in Texts :
       sddsdata_DefineColumn(0, <<"A">>, symbol, units, text, text, "SDDS_LONG", 0)
  \/ \E symbol \in Texts, group_name \in Texts :
       sddsdata_DefineArray(0, <<"a">>, symbol, <<"t">>, <<>>, <<>>, group_name,
                            "SDDS_LONG", 0, 1)
  \/ \E name \in ColumnNames : sddsdata_GetColumnDefinition(0, name)

SpecAttributes == Init /\ [][NextAttributes]_vars

\* the attribute is absent or has at least one character
NotEmpty(c) == c.null \/ Len(c.s) > 0

NoEmptyAttribute(def) ==
  /\ NotEmpty(def.symbol) /\ NotEmpty(def.units) /\ NotEmpty(def.description)
  /\ NotEmpty(def.format_string) /\ NotEmpty(def.group_name)
  /\ NotEmpty(def.fixed_value)

\* what a text handed to a define or open call must be stored as
StoredAs(text) == IF Len(text) = 0 THEN NullStr ELSE CStr(text)

\* C20: no optional attribute of the session or of a field is stored as the
\* empty text; a symbol or description given as the empty text is stored as
\* absent, and get-column-definition reports an absent attribute as the
\* empty text.
C20_EmptyMeansAbsent ==
  LET ds == dataset_f[0] IN
  /\ NotEmpty(ds.description) /\ NotEmpty(ds.contents)
  /\ \A j \in 1..Len(ds.parameters) : NoEmptyAttribute(ds.parameters[j])
  /\ \A j \in 1..Len(ds.columns) : NoEmptyAttribute(ds.columns[j])
  /\ \A j \in 1..Len(ds.arrays) : NoEmptyAttribute(ds.arrays[j])
  /\ (last.op = "InitializeOutput" /\ ret = RetLong(1, FALSE)) =>
       (ds.description = StoredAs(last.arg[2]) /\ ds.contents = StoredAs(last.arg[3]))
  /\ (last.op \in DefineOps /\ ret.k = "int" /\ ret.i >= 0) =>
       DefinedBy(ds, last.op)[ret.i + 1].symbol = StoredAs(last.arg[2])
  /\ (last.op = "GetColumnDefinition" /\ ret.k = "list") =>
       \A q \in 1..4 :
         ret.l[q] = PyStr(<<ds.columns[1].symbol, ds.columns[1].units,
                            ds.columns[1].description,
                            ds.columns[1].format_string>>[q].s)

\* C20 witness: column A, defined with the empty text for its symbol and
\* description and with units, was read back
C20_Witness ==
  /\ last.op = "GetColumnDefinition" /\ ret.k = "list"
  /\ dataset_f[0].columns[1].symbol = NullStr
  /\ dataset_f[0].columns[1].description = NullStr
  /\ ret.l[1] = PyStr(<<>>) /\ ret.l[2] = PyStr(<<"t">>)
  /\ dataset_f[0].contents = NullStr /\ dataset_f[0].description = CStr(<<"t">>)

----------------------------------------------------------------------------
(* The page of a session: started or read, filled, written.                 *)

\* the page is written to the file and is no longer current
SDDS_WritePage(ds) ==
  IF ds.open \in {"output", "append"} /\ ds.paged
  THEN Outcome(1, [ds EXCEPT !.paged = FALSE], 0)
  ELSE Outcome(0, ds, 1)

\* the rows of the current page are discarded, the page stays
SDDS_ClearPage(ds) ==
  IF ds.paged
  THEN Outcome(1, [ds EXCEPT !.n_rows = 0,
                     !.data = [j \in 1..Len(@) |->
                                 [r \in 1..Len(@[j]) |-> ZeroCell(ds.columns[j].type)]]], 0)
  ELSE Outcome(0, ds, 1)

\* more rows are allocated for the current page
SDDS_LengthenTable(ds, n_additional_rows) ==
  IF ds.paged /\ n_additional_rows >= 0
  THEN Outcome(1, [ds EXCEPT !.n_rows_allocated = @ + n_additional_rows,
                     !.data = [j \in 1..Len(@) |->
                                 @[j] \o [r \in 1..n_additional_rows |->
                                            ZeroCell(ds.columns[j].type)]]], 0)
  ELSE Outcome(0, ds, 1)

ClearPageOn(ds) ==
  LET out == SDDS_ClearPage(ds)
  IN Res(out.ds, RetLong(out.r, FALSE), {}, out.nerr)

LengthenTableOn(ds, n_additional_rows) ==
  LET out == SDDS_LengthenTable(ds, n_additional_rows)
  IN Res(out.ds, RetLong(out.r, FALSE), {}, out.nerr)

\* (mutant) the page is cleared and kept, not written
WritePageOn_AsClear(ds) ==
  LET out == SDDS_ClearPage(ds)
  IN Res(out.ds, RetLong(out.r, FALSE), {}, out.nerr)

WritePageOn(ds) ==
  LET out == SDDS_WritePage(ds)
  IN Res(out.ds, RetLong(out.r, FALSE), {}, out.nerr)

sddsdata_ClearPage(fileIndex) ==
  Handle("ClearPage", fileIndex, <<>>, ClearPageOn(dataset_f[fileIndex]))

sddsdata_LengthenTable(fileIndex, n_additional_rows) ==
  /\ InRange(fileIndex) =>
       dataset_f[fileIndex].n_rows_allocated + n_additional_rows <= MaxRows + 1
  /\ Handle("LengthenTable", fileIndex, <<n_additional_rows>>,
            LengthenTableOn(dataset_f[fileIndex], n_additional_rows))

sddsdata_WritePage(fileIndex) ==
  Handle("WritePage", fileIndex, <<>>, WritePageOn(dataset_f[fileIndex]))

PageLists == {<<PyLong(5)>>, <<PyLong(5), PyLong(6)>>}

NextPage ==
  \/ sddsdata_InitializeInput(0, "data")
  \/ sddsdata_InitializeOutput(0, 1, <<>>, <<>>, "out")
  \/ sddsdata_DefineColumn(0, <<"A">>, <<>>, <<>>, <<>>, <<>>, "SDDS_LONG", 0)
  \/ sddsdata_DefineParameter(0, <<"p">>, <<>>, <<>>, <<>>, <<>>, "SDDS_LONG", PyNone)
  \/ sddsdata_StartPage(0, 1)
  \/ sddsdata_ReadPage(0)
  \/ sddsdata_SetParameter(0, PyLong(0), PyLong(5))
  \/ \E v \in PageLists : sddsdata_SetColumn(0, PyLong(0), v)
  \/ sddsdata_SetRowValues(0, 0, <<PyStr(<<"A">>), PyLong(7)>>)
  \/ sddsdata_LengthenTable(0, 1)
  \/ sddsdata_ClearPage(0)
  \/ sddsdata_WritePage(0)
  \/ sddsdata_Terminate(0)

SpecPage == Init /\ [][NextPage]_vars

\* where the session stands in the life of its page
PageState(ds) ==
  IF ds.paged THEN "PageOpen"
  ELSE IF ds.page_number > 0 THEN "PageClosed"
  ELSE "NoPage"

PageOps == {"WritePage", "LengthenTable", "ClearPage", "SetParameter",
            "SetColumn", "SetRowValues"}

\* C21: write-page, lengthen-table, clear-page and the value sets return 1
\* only on a session whose page is open; start-page and read-page open it;
\* after a successful write-page the page is closed; after a successful
\* clear-page the page is open and has no rows.
C21_PageLifecycle ==
  [][/\ (last'.op \in PageOps /\ ret'.k = "int" /\ ret'.i = 1) =>
          PageState(dataset_f[0]) = "PageOpen"
     /\ (last'.op = "StartPage" /\ ret' = RetLong(1, FALSE)) =>
          (PageState(dataset_f'[0]) = "PageOpen" /\ dataset_f'[0].n_rows = 0)
     /\ (last'.op = "ReadPage" /\ ret'.i >= 1) =>
          PageState(dataset_f'[0]) = "PageOpen"
     /\ (last'.op = "WritePage" /\ ret' = RetLong(1, FALSE)) =>
          PageState(dataset_f'[0]) = "PageClosed"
     /\ (last'.op = "ClearPage" /\ ret' = RetLong(1, FALSE)) =>
          (PageState(dataset_f'[0]) = "PageOpen" /\ dataset_f'[0].n_rows = 0)
     /\ (PageState(dataset_f[0]) = "NoPage"
         /\ PageState(dataset_f'[0]) = "PageClosed") => FALSE]_vars

\* C21 witness: a page with two rows was written and a set on the closed
\* page was refused
C21_Witness ==
  /\ last.op = "SetColumn" /\ ret = RetLong(0, FALSE)
  /\ PageState(dataset_f[0]) = "PageClosed"
  /\ dataset_f[0].open = "output" /\ dataset_f[0].n_rows = 2

----------------------------------------------------------------------------
(* Integral fixed values of every size, on parameters of three tags.        *)

FixedTypes == {"SDDS_LONG", "SDDS_LONG64", "SDDS_ULONG64"}
FixedInts == {PyLong(12), PyLong(0 - 3), BigInt(5, 32), BigInt(5, LongBits - 1),
              BigInt(0 - 1, LongBits)}
FixedNames == {<<"p">>, <<"q">>}

NextFixed ==
  \/ sddsdata_InitializeOutput(0, 1, <<>>, <<>>, "out")
  \/ \E name \in FixedNames, type \in FixedTypes, fixed_value \in FixedInts :
       sddsdata_DefineParameter(0, name, <<>>, <<>>, <<>>, <<>>, type, fixed_value)
  \/ sddsdata_Terminate(0)

SpecFixed == Init /\ [][NextFixed]_vars

\* C22: define-parameter with an int v as fixed value succeeds and stores the
\* decimal text of v reduced modulo 2^32 into the int32 range (the low 32
\* bits of v read as signed), whatever the tag of the parameter.
C22_FixedValueInt32 ==
  [][(last'.op = "DefineParameter" /\ last'.arg[4].k = "int" /\ DefineAccepted) =>
       LET old == dataset_f[0].parameters
           new == dataset_f'[0].parameters
       IN /\ ret' = RetLong(Len(old), FALSE)
          /\ Len(new) = Len(old) + 1
          /\ new[Len(new)].type = last'.arg[3]
          /\ new[Len(new)].fixed_value = CStr(SprintLong(last'.arg[4].i))]_vars

----------------------------------------------------------------------------
(* Claims about float32 and character values.                               *)

\* C23: a float set on a float32 parameter is stored as the float32 of the
\* value rounded to six digits after the point, and a get returns the stored
\* float32 rounded in the same way.
C23_RoundedOnBothPaths ==
  [][/\ (/\ last'.op = "SetParameter" /\ last'.arg[1] = PyStr(<<"p">>)
         /\ last'.arg[2].k = "float" /\ FieldTag = "SDDS_FLOAT"
         /\ ret' = RetLong(1, FALSE)) =>
          dataset_f'[0].parameter[1]
            = IntCell(ToFloat(SixDigitsOfDouble(last'.arg[2].i)))
     /\ (/\ last'.op = "GetParameter" /\ last'.arg[1] = PyStr(<<"p">>)
         /\ FieldTag = "SDDS_FLOAT" /\ ret'.k = "float") =>
          ret'.i = SixDigits(dataset_f[0].parameter[1].i)]_vars

\* character fields: the schema with p, A and a of tag SDDS_CHARACTER
InitCharacter == InitMarshal /\ FieldTag = "SDDS_CHARACTER"

CharTexts == {<<"x">>, <<"x", "y">>, <<NonAscii>>}

NextCharacter ==
  \/ sddsdata_StartPage(0, MaxRows)
  \/ \E t \in CharTexts : sddsdata_SetParameter(0, PyStr(<<"p">>), PyStr(t))
  \/ \E t, u \in CharTexts :
       sddsdata_SetColumn(0, PyStr(<<"A">>), <<PyStr(t), PyStr(u)>>)
  \/ \E t \in CharTexts :
       sddsdata_SetRowValues(0, 0, <<PyStr(<<"A">>), PyStr(t)>>)
  \/ \E t \in CharTexts :
       sddsdata_SetArray(0, PyStr(<<"a">>), <<PyStr(t)>>, <<PyLong(1)>>)
  \/ sddsdata_GetParameter(0, PyStr(<<"p">>))
  \/ sddsdata_GetColumn(0, PyStr(<<"A">>))
  \/ sddsdata_GetArray(0, PyStr(<<"a">>))

SpecCharacter == InitCharacter /\ [][NextCharacter]_vars

\* the cell of the first byte of a text object
FirstByteOf(o) == CharCell(<<Head(PyUnicode_AsUTF8(o.s))>>)

\* the text object of one byte
TextOfByte(o, cell) ==
  /\ o.k = "str"
  /\ Len(o.s) <= 1
  /\ PyUnicode_AsUTF8(o.s) = cell.c.s

\* C24: on an open page a set of a character parameter, column (of as many
\* rows as the page holds), row value or
\* array with non-empty texts returns 1 with no error and stores the first
\* byte of each text, and a get of a character field returns the text of
\* the stored byte.
C24_FirstByteOfText ==
  [][/\ dataset_f[0].paged =>
          LET v == last'.arg[2]
              new == dataset_f'[0]
          IN /\ last'.op = "SetParameter" =>
                  ret' = RetLong(1, FALSE) /\ new.parameter[1] = FirstByteOf(v)
             /\ (last'.op = "SetColumn"
                 /\ dataset_f[0].n_rows \in {0, Len(v)}) =>
                  /\ ret' = RetLong(1, FALSE)
                  /\ new.n_rows = Len(v)
                  /\ \A j \in 1..Len(v) : new.data[1][j] = FirstByteOf(v[j])
             /\ last'.op = "SetRowValues" =>
                  ret' = RetLong(1, FALSE) /\ new.data[1][1] = FirstByteOf(v[2])
             /\ last'.op = "SetArray" =>
                  /\ ret' = RetLong(1, FALSE)
                  /\ new.array[1].data = <<FirstByteOf(v[1])>>
     /\ (last'.op = "GetParameter" /\ dataset_f[0].paged) =>
          ~ret'.exc /\ TextOfByte(ret', dataset_f[0].parameter[1])
     /\ (last'.op = "GetColumn" /\ dataset_f[0].n_rows > 0) =>
          /\ ret'.k = "list" /\ ~ret'.exc
          /\ \A j \in 1..dataset_f[0].n_rows :
               TextOfByte(ret'.l[j], dataset_f[0].data[1][j])
     /\ (last'.op = "GetArray" /\ dataset_f[0].array # <<>>
         /\ dataset_f[0].array[1].elements > 0) =>
          /\ ret'.k = "list" /\ ~ret'.exc
          /\ \A j \in 1..dataset_f[0].array[1].elements :
               TextOfByte(ret'.l[j], dataset_f[0].array[1].data[j])]_vars

----------------------------------------------------------------------------
(* Claims about fields addressed by number.                                 *)

Positions == {0 - 1, 0, 2}

NextPositional ==
  \/ sddsdata_StartPage(0, MaxRows)
  \/ \E n \in Positions : sddsdata_SetParameter(0, PyLong(n), PyLong(5))
  \/ \E n \in Positions : sddsdata_SetColumn(0, PyLong(n), <<PyLong(5)>>)
  \/ \E n \in Positions :
       sddsdata_SetArray(0, PyLong(n), <<PyLong(5)>>, <<PyLong(1)>>)
  \/ \E n \in Positions : sddsdata_GetParameter(0, PyLong(n))
  \/ \E n \in Positions : sddsdata_GetColumn(0, PyLong(n))
  \/ \E n \in Positions : sddsdata_GetArray(0, PyLong(n))
  \/ \E n \in Positions : sddsdata_GetArrayDimensions(0, PyLong(n))

SpecPositional == InitMarshal /\ [][NextPositional]_vars

\* the definitions a call addresses
FieldsOf(ds, op) ==
  CASE op \in {"SetParameter", "GetParameter"} -> ds.parameters
    [] op \in {"SetColumn", "GetColumn"} -> ds.columns
    [] OTHER -> ds.arrays

PositionalOps == {"SetParameter", "SetColumn", "SetArray", "GetParameter",
                  "GetColumn", "GetArray", "GetArrayDimensions"}

\* C25: a get or set addressed by a number below 0 or not below the number
\* of fields returns NULL, changes nothing, and reads no entry at that
\* position (the process cannot die of it).
C25_NumberOutOfRange ==
  [][(/\ last'.op \in PositionalOps
      /\ ~HasIndex(FieldsOf(dataset_f[0], last'.op), last'.arg[1].i)) =>
       /\ ret'.k = "NULL"
       /\ ~crashed'
       /\ dataset_f' = dataset_f]_vars

\* C26: get-array and get-array-dimensions on the defined array a, while the
\* slot has no page and the engine returns no array, return NULL, and nothing
\* is read through the missing array (the process cannot die of it).
C26_NoArrayData ==
  [][(/\ last'.op \in {"GetArray", "GetArrayDimensions"}
      /\ last'.arg[1] \in {PyStr(<<"a">>), PyLong(0)}
      /\ SDDS_GetArray(dataset_f[0], CStr(<<"a">>)).null) =>
       ret'.k = "NULL" /\ ~crashed']_vars

\* the number of elements a list of ints names as a shape
ShapeProduct(dim) == Product([q \in 1..Len(dim) |-> dim[q].i])

\* C28: every stored array holds as many elements as the product of its
\* stored shape, and a set-array whose list (of values of the array's own
\* kind) is not as long as the product of the shape it comes with does not
\* succeed and changes nothing.
C28_ShapeMatchesData ==
  /\ [](\A j \in 1..Len(dataset_f[0].array) :
          LET a == dataset_f[0].array[j] IN
          a.data # <<>> =>
            a.elements = Product(a.dimension) /\ Len(a.data) = a.elements)
  /\ [][(/\ last'.op = "SetArray"
         /\ \A q \in 1..Len(last'.arg[3]) : PyLong_Check(last'.arg[3][q])
         /\ \A j \in 1..Len(last'.arg[2]) : ValueOfTag(FieldTag, last'.arg[2][j])
         /\ Len(last'.arg[2]) # ShapeProduct(last'.arg[3])) =>
          /\ ~crashed'
          /\ ret' # RetLong(1, FALSE)
          /\ dataset_f' = dataset_f]_vars

\* sddsdata_RowCount: PyLong_FromLongLong(SDDS_RowCount(&dataset_f[fileIndex]))
RowCountOn(ds) == SDDS_RowCount(ds)

\* C30: get-column on a column of the schema returns None when the row count
\* is negative, else NULL when the engine has no data for the column, else a
\* list of exactly row-count() items.
C30_ColumnLength ==
  [][(/\ last'.op = "GetColumn"
      /\ last'.arg[1] \in {PyStr(<<"A">>), PyStr(<<"B">>), PyLong(0), PyLong(1)}) =>
       LET ds == dataset_f[0]
           name == IF last'.arg[1] \in {PyStr(<<"A">>), PyLong(0)}
                   THEN <<"A">> ELSE <<"B">>
       IN IF RowCountOn(ds) < 0 THEN ret' = RetNone
          ELSE IF SDDS_GetColumn(ds, CStr(name)).null THEN ret'.k = "NULL"
          ELSE ret'.k = "list" /\ Len(ret'.l) = RowCountOn(ds)]_vars

----------------------------------------------------------------------------
(* Calls that name two handles.                                             *)

\* the engine opens the target for writing with the layout of an open source
SDDS_InitializeCopy(SDDS_target, SDDS_source, filename, filemode) ==
  IF SDDS_source.open # "none" /\ filemode = <<"w">>
  THEN Outcome(1, [ZeroDataset EXCEPT !.open = "output",
                                      !.mode = SDDS_source.mode,
                                      !.file = filename,
                                      !.parameters = SDDS_source.parameters,
                                      !.columns = SDDS_source.columns,
                                      !.arrays = SDDS_source.arrays,
                                      !.description = SDDS_source.description,
                                      !.contents = SDDS_source.contents], 0)
  ELSE Outcome(0, SDDS_target, 1)

\* the engine defines in the target the column name of the source, under
\* newName
SDDS_TransferColumnDefinition(target, source, name, newName) ==
  LET index == FieldIndex(source.columns, CStr(name)) IN
  IF /\ source.open # "none"
     /\ index >= 0
     /\ Definable(target, target.columns, CStr(newName),
                  source.columns[index + 1].type)
  THEN Outcome(1, [target EXCEPT !.columns =
                     Append(@, [source.columns[index + 1] EXCEPT !.name = newName])], 0)
  ELSE Outcome(0, target, 1)

\* SDDS_X(&dataset_f[fileIndexTarget], &dataset_f[fileIndexSource], ...)
TwoHandles(call, fileIndexTarget, fileIndexSource, out) ==
  /\ ~crashed
  /\ \/ /\ InRange(fileIndexTarget) /\ InRange(fileIndexSource)
        /\ Store(fileIndexTarget, out)
        /\ Done(call, RetLong(out.r, FALSE), {})
     \/ Wild(fileIndexTarget, call, SomeInt)
     \/ Wild(fileIndexSource, call, SomeInt)

sddsdata_InitializeCopy(fileIndexTarget, fileIndexSource, filename, filemode) ==
  TwoHandles(Call("InitializeCopy", fileIndexTarget, <<fileIndexSource, filemode>>),
             fileIndexTarget, fileIndexSource,
             SDDS_InitializeCopy(dataset_f[fileIndexTarget],
                                 dataset_f[fileIndexSource], filename, filemode))

sddsdata_TransferColumnDefinition(fileIndexTarget, fileIndexSource, name, newName) ==
  TwoHandles(Call("TransferColumnDefinition", fileIndexTarget,
                  <<fileIndexSource, name, newName>>),
             fileIndexTarget, fileIndexSource,
             SDDS_TransferColumnDefinition(dataset_f[fileIndexTarget],
                                           dataset_f[fileIndexSource], name, newName))

NextFrame ==
  \E fileIndex \in Slots :
    \/ sddsdata_InitializeOutput(fileIndex, 1, <<>>, <<>>, "out")
    \/ sddsdata_DefineColumn(fileIndex, <<"A">>, <<>>, <<>>, <<>>, <<>>, "SDDS_LONG", 0)
    \/ \E fileIndexSource \in Slots :
         \/ sddsdata_CopyLayout(fileIndex, fileIndexSource)
         \/ sddsdata_InitializeCopy(fileIndex, fileIndexSource, "out", <<"w">>)
         \/ \E newName \in ColumnNames :
              sddsdata_TransferColumnDefinition(fileIndex, fileIndexSource,
                                                <<"A">>, newName)
    \/ sddsdata_Terminate(fileIndex)

SpecFrame == Init /\ [][NextFrame]_vars

----------------------------------------------------------------------------
(* The name-validity policy.                                                *)

\* (mutant) the flag is switched: set when it was clear, cleared when set
SDDS_SetNameValidityFlags_Toggled(flags) ==
  [r |-> nameValidityFlags,
   flags |-> IF nameValidityFlags = flags THEN 0 ELSE flags]

\* the engine stores the new flags and returns the ones it held
SDDS_SetNameValidityFlags(flags) == [r |-> nameValidityFlags, flags |-> flags]

\* SDDS_IsValidName(name, NULL): the engine queues an error for a name it
\* refuses
sddsdata_IsValidName(name) ==
  LET valid == SDDS_IsValidName(name) IN
  /\ ~crashed
  /\ n_errors' = n_errors + (IF valid THEN 0 ELSE 1)
  /\ n_errors' <= MaxErrors
  /\ Done(Call("IsValidName", 0, <<name>>),
          RetLong(IF valid THEN 1 ELSE 0, FALSE), {})
  /\ UNCHANGED <<dataset_f, outside, crashed>>

\* SDDS_SetNameValidityFlags(SDDS_ALLOW_ANY_NAME)
sddsdata_SetNameValidityFlags ==
  LET out == SDDS_SetNameValidityFlags(SDDS_ALLOW_ANY_NAME) IN
  /\ ~crashed
  /\ nameValidityFlags' = out.flags
  /\ last' = Call("SetNameValidityFlags", 0, <<>>)
  /\ ret' = RetLong(out.r, FALSE)
  /\ leaked' = {}
  /\ UNCHANGED <<dataset_f, outside, n_errors, crashed>>

\* a valid name, one that begins with a digit, one that holds a blank, and
\* the empty one
Names == {<<"A">>, <<"1", "A">>, <<"A", Blank, "B">>, <<>>}

NextNames ==
  \/ sddsdata_InitializeOutput(0, 1, <<>>, <<>>, "out")
  \/ \E name \in Names :
       sddsdata_DefineColumn(0, name, <<>>, <<>>, <<>>, <<>>, "SDDS_LONG", 0)
  \/ \E name \in Names : sddsdata_IsValidName(name)
  \/ sddsdata_SetNameValidityFlags
  \/ sddsdata_Terminate(0)

SpecNames == Init /\ [][NextNames]_vars

\* C29: the policy starts strict (the flags are clear while no call has set
\* them); set-name-validity-policy sets allow-any-name and returns the flags
\* held before; once set the flag stays set; and while it is set
\* is-valid-name returns 1 for every name and a define on an open session
\* fails for no name but one already taken.
C29_PolicyIsMonotone ==
  /\ [](nameValidityFlags \in {0, SDDS_ALLOW_ANY_NAME})
  /\ [][/\ last'.op = "SetNameValidityFlags" =>
             /\ ret' = RetLong(nameValidityFlags, FALSE)
             /\ nameValidityFlags' = SDDS_ALLOW_ANY_NAME
        /\ nameValidityFlags = SDDS_ALLOW_ANY_NAME =>
             /\ nameValidityFlags' = SDDS_ALLOW_ANY_NAME
             /\ last'.op = "IsValidName" => ret' = RetLong(1, FALSE)
             /\ (/\ last'.op = "DefineColumn"
                 /\ dataset_f[0].open # "none"
                 /\ ~NameTaken(DefinedBy(dataset_f[0], last'.op), last'.arg[1])) =>
                  ret'.k = "int" /\ ret'.i >= 0
        /\ (nameValidityFlags = 0 /\ last'.op = "IsValidName"
            /\ last'.arg[1] # <<"A">>) =>
             ret' = RetLong(0, FALSE)]_vars

\* with the flag set, a column whose name holds a blank is defined on an
\* open session
C29_Witness ==
  /\ nameValidityFlags = SDDS_ALLOW_ANY_NAME
  /\ last.op = "DefineColumn" /\ last.arg[1] = <<"A", Blank, "B">>
  /\ ret = RetLong(0, FALSE)
  /\ Len(dataset_f[0].columns) = 1

====
